---- MODULE Spec2Model ----
(***************************************************************************)
(* Zotero-RAG-Assistant: the background indexer (backend/interface.py,     *)
(* backend/vector_db.py, backend/embed_utils.py), the HTTP handlers that   *)
(* drive it (backend/main.py) and the chat controller with its             *)
(* conversation store (backend/interface.py, backend/conversation_store.py)*)
(***************************************************************************)
EXTENDS FiniteSets, Integers, Sequences, TLC

(***************************************************************************)
(* Bounds of the model.                                                    *)
(***************************************************************************)
\* catalogue size: items returned by search_parent_items_with_pdfs()
NumItems == 2
\* chunks the chunker yields for a PDF that has text
NumChunks == 2
\* start_indexing calls (each may spawn one worker thread)
MaxStarts == 2
\* cancel_indexing calls
MaxCancels == 1
\* POST /api/settings calls that change embeddingModel
MaxSwitches == 1
\* activate_profile calls (each constructs a new ZoteroChatbot)
MaxActivations == 1
\* requests that disturb a job in one behaviour: a cancel, a settings change,
\* a profile activation, or a start_indexing call racing another one
MaxDisturb == 1
\* chat sessions, distinct queries, snippets a retrieval returns, chat calls
NumSessions == 2
NumQueries == 2
MaxHits == 1
MaxChats == 2
\* messages a session may hold when append_message is called directly
MaxLog == 3

Items == 1..NumItems
Bots == 1..(MaxActivations + 1)
Calls == 1..MaxStarts
CancelCalls == 1..MaxCancels

\* embed_utils.EMBEDDING_MODELS: two of the registered models, one per dimension
Models == {"bge-base", "minilm-l6"}
DEFAULT_MODEL_ID == "bge-base"

\* What the file system and the PDF extractor yield for an item's pdf_path:
\*   missing : os.path.exists is false
\*   error   : extract_text_with_pages raises
\*   nopages : it returns [] (main.py: "PDF has no extractable pages")
\*   blank   : it returns pages whose text is blank
\*   text    : it returns pages with text, chunked into NumChunks chunks
PdfKinds == {"missing", "error", "nopages", "blank", "text"}
\* the libraries explored: the last item's PDF has text, the others are arbitrary
Catalogues == {f \in [Items -> PdfKinds] : f[NumItems] = "text"}

\* Catalogue 'date' of an item: item 1 has one, the others have none.
Date(item) == IF item = 1 THEN "2020-01-15" ELSE "none"

VARIABLES
  chatbot,             \* main.py: the global `chatbot` (which ZoteroChatbot is current)
  settings_model,      \* persisted settings["embeddingModel"]
  is_indexing,         \* per ZoteroChatbot: self.is_indexing
  _cancel_indexing,    \* per ZoteroChatbot: self._cancel_indexing
  index_progress,      \* per ZoteroChatbot: self.index_progress
  embedding_model_id,  \* per ZoteroChatbot: self.embedding_model_id
  chroma,              \* per ZoteroChatbot: self.chroma (named by its collection's model id)
  collection,          \* the persistent store: model id -> set of chunks
  bm25_file,           \* bm25_index_<model>.pkl: model id -> chunk ids indexed
  pdf,                 \* file system: item -> PdfKinds
  start_req,           \* start_indexing calls in flight
  cancel_req,          \* cancel_indexing calls in flight
  settings_req,        \* update_settings call in flight, and how many were made
  worker,              \* indexing worker threads
  _sessions,           \* ConversationStore._sessions: session id -> messages (<<>>: none)
  chat_call,           \* ZoteroChatbot.chat calls in flight
  store_takes_provider_id, \* which ConversationStore.get_messages the build has
  request,             \* the arguments of a call of a retrieval or filter function
  response             \* what that call has computed so far

ivars == <<chatbot, settings_model, is_indexing, _cancel_indexing, index_progress,
           embedding_model_id, chroma, collection, bm25_file, pdf,
           start_req, cancel_req, settings_req, worker>>
fvars == <<request, response>>
cvars == <<_sessions, chat_call, store_takes_provider_id, fvars>>
vars == <<ivars, cvars>>

(***************************************************************************)
(* Values.                                                                 *)
(***************************************************************************)
\* a Python str metadata value (an int would be [t |-> "int", v |-> n])
StrVal(s) == [t |-> "str", v |-> s]

\* embed_utils.get_embedding_dimension: EMBEDDING_MODELS[model_id]['dimension']
get_embedding_dimension(model_id) == IF model_id = "bge-base" THEN 768 ELSE 384

\* embed_utils.get_embedding: the vector a successful call returns. The call
\* itself checks len(embedding) against the model's dimension, so a returned
\* vector always has it; `by` records which model produced the numbers.
get_embedding(model_id) == [dim |-> get_embedding_dimension(model_id), by |-> model_id]

\* interface.py: `year = meta_src.get("date") or ""` is what goes into the
\* chunk metadata: the catalogue's date string, or "" when there is none.
YearMeta(item) == IF Date(item) = "none" THEN StrVal("") ELSE StrVal(Date(item))

\* interface.py: the id f"{item_id}:{i}", the metadata dict and the vector
\* written for chunk i of an item
ChunkRecord(item, i, vec) ==
  [id |-> <<item, i>>, item_id |-> item, chunk_idx |-> i, year |-> YearMeta(item),
   dim |-> vec.dim, by |-> vec.by]

\* vector_db.get_indexed_item_ids: distinct item_id over all chunks of a collection
get_indexed_item_ids_None(coll) == {}
get_indexed_item_ids(coll) == {c.item_id : c \in coll}

\* chromadb collection.add as add_chunks uses it: the collection's dimension is
\* that of the chunks it holds; a batch whose vectors differ from it, or from
\* one another, is refused whole.
AddAccepted(coll, vectors) ==
  /\ \A i, j \in 1..Len(vectors) : vectors[i].dim = vectors[j].dim
  /\ \A c \in coll : \A i \in 1..Len(vectors) : vectors[i].dim = c.dim

\* vector_db.add_chunks: records whose id is already present are left as they are
add_chunks(coll, item, vectors) ==
  coll \cup {ChunkRecord(item, i - 1, vectors[i]) : i \in
               {k \in 1..Len(vectors) : \A c \in coll : c.id # <<item, k - 1>>}}

\* vector_db.build_bm25_index: every id of the collection; nothing is done
\* (the previous file stays) when the collection is empty
build_bm25_index(old, coll) == IF coll = {} THEN old ELSE {c.id : c \in coll}

(***************************************************************************)
(* The indexer's records.                                                  *)
(***************************************************************************)
\* ZoteroChatbot.__init__: self.index_progress
InitProgress ==
  [processed_items |-> 0, total_items |-> 0, skipped_items |-> 0,
   mode |-> "unset", skip_reasons |-> <<>>]

\* start_indexing: the progress dict it resets to
ResetProgress(incremental) ==
  [processed_items |-> 0, total_items |-> 0, skipped_items |-> 0,
   mode |-> IF incremental THEN "incremental" ELSE "full", skip_reasons |-> <<>>]

NoWorker ==
  [pc |-> "none", self |-> 0, incremental |-> FALSE, items |-> <<>>, i |-> 0,
   extracted |-> 0, vectors |-> <<>>,
   \* history, read by the properties only
   snap |-> [m \in Models |-> {}],  \* the store when the thread was started
   read_from |-> "none",            \* collection get_indexed_item_ids was read from
   added |-> {},                    \* <<collection, item>> of add_chunks calls that returned
   wrote |-> {},                    \* <<collection, chunk id>> those calls put into the store
   failed |-> {},                   \* items the job gave up on
   broke |-> FALSE,                 \* a loop was left because the cancel flag was set
   raised |-> FALSE,                \* the job ended by an exception nothing caught
   transient |-> FALSE,             \* an embedding or store-write failure happened
   stable |-> TRUE,                 \* model and collection never differed from read_from
   late_embeds |-> 0,               \* embed calls started while the cancel flag was set
   prev |-> {}]                     \* incremental jobs that had completed before this one

NoStart == [pc |-> "idle", self |-> 0, incremental |-> FALSE, raced |-> FALSE]
\* jobs: history, the jobs running on the chatbot when cancel_indexing was called
NoCancel == [pc |-> "idle", self |-> 0, jobs |-> {}]

\* the catalogue in the order search_parent_items_with_pdfs returns it
RawItems == [k \in 1..NumItems |-> k]

\* keep, in order, the elements of seq that are in S
RECURSIVE SelectIn(_, _)
SelectIn(seq, S) ==
  IF seq = <<>> THEN <<>>
  ELSE (IF Head(seq) \in S THEN <<Head(seq)>> ELSE <<>>) \o SelectIn(Tail(seq), S)

\* item.metadata.get('pages_data') or [] as the second loop sees it: set by the
\* first loop only for items it reached and could extract
PagesData(w, k) ==
  IF k <= worker[w].extracted /\ pdf[worker[w].items[k]] \in {"nopages", "blank", "text"}
  THEN pdf[worker[w].items[k]] ELSE "nopages"

\* skip_reasons.append(...) and processed_items += 1 on the worker's chatbot
Skip(progress, item, why) ==
  [progress EXCEPT !.skip_reasons = Append(@, [item |-> item, why |-> why]),
                   !.processed_items = @ + 1]
Count(progress) == [progress EXCEPT !.processed_items = @ + 1]

\* how many disturbing requests the behaviour has seen (see MaxDisturb)
Disturbances ==
  Cardinality({c \in CancelCalls : cancel_req[c].pc # "idle"})
  + Cardinality({k \in Calls : start_req[k].raced})
  + settings_req.count + (chatbot - 1)

\* another start_indexing call on the same chatbot is between its check and its set
Racing(k) ==
  \E j \in Calls : j # k /\ start_req[j].pc = "checked" /\ start_req[j].self = chatbot

(***************************************************************************)
(* start_indexing, cancel_indexing (interface.py) as main.py's handlers    *)
(* call them on the global chatbot, each on its own request thread.        *)
(***************************************************************************)
\* `if self.is_indexing: return`
StartCheck(k, incremental) ==
  /\ start_req[k].pc = "idle"
  /\ \A j \in Calls : j < k => start_req[j].pc # "idle"
  /\ Racing(k) => Disturbances < MaxDisturb
  /\ start_req' = [start_req EXCEPT ![k] =
        [pc |-> IF is_indexing[chatbot] THEN "done" ELSE "checked",
         self |-> chatbot, incremental |-> incremental, raced |-> Racing(k)]]
  /\ UNCHANGED <<chatbot, settings_model, is_indexing, _cancel_indexing, index_progress,
                 embedding_model_id, chroma, collection, bm25_file, pdf,
                 cancel_req, settings_req, worker>>
  /\ UNCHANGED cvars

\* the incremental jobs that have run to their end, as history
Completed ==
  {[m |-> worker[v].read_from,
    clean |-> ~worker[v].broke /\ ~worker[v].transient /\ worker[v].stable] :
     v \in {u \in Calls : worker[u].pc = "done" /\ worker[u].incremental}}

\* the rest of start_indexing: set the flags, reset the progress, start the thread
StartSet(k) ==
  /\ start_req[k].pc = "checked"
  /\ LET self == start_req[k].self IN
     /\ is_indexing' = [is_indexing EXCEPT ![self] = TRUE]
     /\ _cancel_indexing' = [_cancel_indexing EXCEPT ![self] = FALSE]
     /\ index_progress' = [index_progress EXCEPT
                             ![self] = ResetProgress(start_req[k].incremental)]
     /\ worker' = [worker EXCEPT ![k] =
           [NoWorker EXCEPT !.pc = "begin", !.self = self,
                            !.incremental = start_req[k].incremental,
                            !.snap = collection, !.prev = Completed]]
  /\ start_req' = [start_req EXCEPT ![k].pc = "done"]
  /\ UNCHANGED <<chatbot, settings_model, embedding_model_id, chroma, collection,
                 bm25_file, pdf, cancel_req, settings_req>>
  /\ UNCHANGED cvars

\* `if not self.is_indexing: return`
CancelCheck(c) ==
  /\ cancel_req[c].pc = "idle"
  /\ Disturbances < MaxDisturb
  /\ \A j \in CancelCalls : j < c => cancel_req[j].pc # "idle"
  /\ cancel_req' = [cancel_req EXCEPT ![c] =
        [pc |-> IF is_indexing[chatbot] THEN "checked" ELSE "done", self |-> chatbot,
         jobs |-> {w \in Calls : /\ worker[w].pc \notin {"none", "done"}
                                 /\ worker[w].self = chatbot}]]
  /\ UNCHANGED <<chatbot, settings_model, is_indexing, _cancel_indexing, index_progress,
                 embedding_model_id, chroma, collection, bm25_file, pdf,
                 start_req, settings_req, worker>>
  /\ UNCHANGED cvars

\* `self._cancel_indexing = True`
CancelSet(c) ==
  /\ cancel_req[c].pc = "checked"
  /\ _cancel_indexing' = [_cancel_indexing EXCEPT ![cancel_req[c].self] = TRUE]
  /\ cancel_req' = [cancel_req EXCEPT ![c].pc = "done"]
  /\ UNCHANGED <<chatbot, settings_model, is_indexing, index_progress,
                 embedding_model_id, chroma, collection, bm25_file, pdf,
                 start_req, settings_req, worker>>
  /\ UNCHANGED cvars

(***************************************************************************)
(* The worker threads: _index_library_worker and                           *)
(* _index_library_incremental_worker, one action per step between two      *)
(* reads of state another thread can change.                               *)
(***************************************************************************)
\* new_item_ids = all_item_ids - indexed_ids
NewItemIds_NoSubtract(all_item_ids, indexed_ids) == all_item_ids
NewItemIds(all_item_ids, indexed_ids) == all_item_ids \ indexed_ids

\* up to the first loop: read the catalogue (and, incrementally, the store)
WorkerBegin(w) ==
  /\ worker[w].pc = "begin"
  /\ LET self == worker[w].self
         indexed_ids == get_indexed_item_ids(collection[chroma[self]])
         items == IF worker[w].incremental
                  THEN SelectIn(RawItems, NewItemIds(Items, indexed_ids))
                  ELSE RawItems
     IN
     /\ index_progress' = [index_progress EXCEPT
           ![self].total_items = Len(items),
           ![self].processed_items = 0,
           ![self].skipped_items =
               IF worker[w].incremental THEN Cardinality(indexed_ids) ELSE @]
     /\ worker' = [worker EXCEPT
           ![w].items = items,
           ![w].i = 1,
           ![w].read_from = IF worker[w].incremental THEN chroma[self] ELSE "none",
           ![w].pc = IF items = <<>> THEN "finally1" ELSE "extract"]
  /\ UNCHANGED <<chatbot, settings_model, is_indexing, _cancel_indexing,
                 embedding_model_id, chroma, collection, bm25_file, pdf,
                 start_req, cancel_req, settings_req>>
  /\ UNCHANGED cvars

\* one iteration of the first loop (text extraction)
WorkerExtract(w) ==
  /\ worker[w].pc = "extract"
  /\ LET self == worker[w].self
         i == worker[w].i
         item == worker[w].items[i]
         last == i = Len(worker[w].items)
     IN
     IF _cancel_indexing[self]
     THEN /\ worker' = [worker EXCEPT ![w].pc = "vectorize", ![w].i = 1, ![w].broke = TRUE]
          /\ UNCHANGED index_progress
     ELSE /\ index_progress' = [index_progress EXCEPT ![self] =
                CASE pdf[item] = "missing" -> Skip(@, item, "PDF not found")
                  [] pdf[item] = "error" -> Skip(@, item, "PDF extraction failed")
                  [] OTHER -> @]
          /\ worker' = [worker EXCEPT
                ![w].extracted = i,
                ![w].i = IF last THEN 1 ELSE i + 1,
                ![w].pc = IF last THEN "vectorize" ELSE "extract",
                ![w].failed = IF pdf[item] \in {"missing", "error"}
                              THEN @ \cup {item} ELSE @]
  /\ UNCHANGED <<chatbot, settings_model, is_indexing, _cancel_indexing,
                 embedding_model_id, chroma, collection, bm25_file, pdf,
                 start_req, cancel_req, settings_req>>
  /\ UNCHANGED cvars

\* `continue` in the second loop: on to the next item, or to the BM25 rebuild
Advance(wr) ==
  IF wr.i = Len(wr.items)
  THEN [wr EXCEPT !.pc = "bm25", !.vectors = <<>>]
  ELSE [wr EXCEPT !.pc = "vectorize", !.i = @ + 1, !.vectors = <<>>]

\* the second loop up to the embedding: cancel check, pages_data, chunking
WorkerVectorize(w) ==
  /\ worker[w].pc = "vectorize"
  /\ LET self == worker[w].self
         i == worker[w].i
         item == worker[w].items[i]
         pages == PagesData(w, i)
         wr == worker[w]
     IN
     IF _cancel_indexing[self]
     THEN /\ worker' = [worker EXCEPT ![w].pc = "bm25", ![w].broke = TRUE]
          /\ UNCHANGED index_progress
     ELSE CASE pages = "nopages" ->
                 \* skipped silently: no reason, no count
                 /\ worker' = [worker EXCEPT ![w] =
                       Advance([wr EXCEPT !.failed =
                          IF i <= worker[w].extracted /\ pdf[item] = "nopages"
                          THEN @ \cup {item} ELSE @])]
                 /\ UNCHANGED index_progress
            [] pages = "blank" ->
                 \* chunk_text_with_pages returns []
                 /\ index_progress' = [index_progress EXCEPT ![self] =
                       IF worker[w].incremental THEN Count(@)
                       ELSE Skip(@, item, "No chunks created")]
                 /\ worker' = [worker EXCEPT ![w] =
                       Advance([wr EXCEPT !.failed = @ \cup {item}])]
            [] OTHER ->
                 /\ worker' = [worker EXCEPT ![w] = [wr EXCEPT !.pc = "embed"]]
                 /\ UNCHANGED index_progress
  /\ UNCHANGED <<chatbot, settings_model, is_indexing, _cancel_indexing,
                 embedding_model_id, chroma, collection, bm25_file, pdf,
                 start_req, cancel_req, settings_req>>
  /\ UNCHANGED cvars

\* does the worker still see the model and collection its job began with
Stable(w) ==
  /\ worker[w].stable
  /\ worker[w].incremental => /\ embedding_model_id[worker[w].self] = worker[w].read_from
                              /\ chroma[worker[w].self] = worker[w].read_from

\* one get_embedding(chunk, self.embedding_model_id) of the list comprehension
WorkerEmbed(w, ok) ==
  /\ worker[w].pc = "embed"
  /\ LET self == worker[w].self
         item == worker[w].items[worker[w].i]
         seen == [worker[w] EXCEPT
                    !.stable = Stable(w),
                    !.late_embeds = IF _cancel_indexing[self] /\ @ < 2
                                    THEN @ + 1 ELSE @]
     IN
     IF ok
     THEN /\ worker' = [worker EXCEPT ![w] =
                [seen EXCEPT
                   !.vectors = Append(@, get_embedding(embedding_model_id[self])),
                   !.pc = IF Len(worker[w].vectors) + 1 = NumChunks
                          THEN "check" ELSE "embed"]]
          /\ UNCHANGED index_progress
     ELSE /\ index_progress' = [index_progress EXCEPT ![self] =
                Skip(@, item, "Embedding generation failed")]
          /\ worker' = [worker EXCEPT ![w] =
                Advance([seen EXCEPT !.failed = @ \cup {item}, !.transient = TRUE])]
  /\ UNCHANGED <<chatbot, settings_model, is_indexing, _cancel_indexing,
                 embedding_model_id, chroma, collection, bm25_file, pdf,
                 start_req, cancel_req, settings_req>>
  /\ UNCHANGED cvars

\* `if vectors and len(vectors[0]) != expected_dim`
WorkerCheck(w) ==
  /\ worker[w].pc = "check"
  /\ LET self == worker[w].self
         item == worker[w].items[worker[w].i]
         expected_dim == get_embedding_dimension(embedding_model_id[self])
         seen == [worker[w] EXCEPT !.stable = Stable(w)]
     IN
     IF worker[w].vectors[1].dim # expected_dim
     THEN /\ index_progress' = [index_progress EXCEPT ![self] =
                Skip(@, item, "Unexpected embedding dimension")]
          /\ worker' = [worker EXCEPT ![w] =
                Advance([seen EXCEPT !.failed = @ \cup {item}, !.transient = TRUE])]
     ELSE /\ worker' = [worker EXCEPT ![w] = [seen EXCEPT !.pc = "add"]]
          /\ UNCHANGED index_progress
  /\ UNCHANGED <<chatbot, settings_model, is_indexing, _cancel_indexing,
                 embedding_model_id, chroma, collection, bm25_file, pdf,
                 start_req, cancel_req, settings_req>>
  /\ UNCHANGED cvars

\* self.chroma.add_chunks(...) and the progress update that follows it
WorkerAdd(w, ok) ==
  /\ worker[w].pc = "add"
  /\ LET self == worker[w].self
         item == worker[w].items[worker[w].i]
         target == chroma[self]
         seen == [worker[w] EXCEPT !.stable = Stable(w)]
     IN
     IF ok /\ AddAccepted(collection[target], worker[w].vectors)
     THEN /\ collection' = [collection EXCEPT
                ![target] = add_chunks(@, item, worker[w].vectors)]
          /\ index_progress' = [index_progress EXCEPT ![self] = Count(@)]
          /\ worker' = [worker EXCEPT ![w] =
                Advance([seen EXCEPT
                   !.added = @ \cup {<<target, item>>},
                   !.wrote = @ \cup {<<target, c.id>> : c \in
                      add_chunks(collection[target], item, worker[w].vectors)
                        \ collection[target]}])]
     ELSE /\ index_progress' = [index_progress EXCEPT ![self] =
                Skip(@, item, "Failed to add to ChromaDB")]
          /\ worker' = [worker EXCEPT ![w] =
                Advance([seen EXCEPT !.failed = @ \cup {item}, !.transient = TRUE])]
          /\ UNCHANGED collection
  /\ UNCHANGED <<chatbot, settings_model, is_indexing, _cancel_indexing,
                 embedding_model_id, chroma, bm25_file, pdf,
                 start_req, cancel_req, settings_req>>
  /\ UNCHANGED cvars

\* after the loops: rebuild the BM25 index if anything counts as indexed
WorkerBm25(w) ==
  /\ worker[w].pc = "bm25"
  /\ LET self == worker[w].self
         successful_items == index_progress[self].processed_items
                               - Len(index_progress[self].skip_reasons)
     IN
     /\ bm25_file' = IF successful_items > 0
                     THEN [bm25_file EXCEPT ![chroma[self]] =
                             build_bm25_index(@, collection[chroma[self]])]
                     ELSE bm25_file
     /\ worker' = [worker EXCEPT ![w].pc = "finally1", ![w].stable = Stable(w)]
  /\ UNCHANGED <<chatbot, settings_model, is_indexing, _cancel_indexing, index_progress,
                 embedding_model_id, chroma, collection, pdf,
                 start_req, cancel_req, settings_req>>
  /\ UNCHANGED cvars

\* finally: self.is_indexing = False
WorkerFinally1_KeepsBusy(w) ==
  /\ worker[w].pc = "finally1"
  /\ worker' = [worker EXCEPT ![w].pc = "finally2"]
  /\ UNCHANGED <<chatbot, settings_model, is_indexing, _cancel_indexing, index_progress,
                 embedding_model_id, chroma, collection, bm25_file, pdf,
                 start_req, cancel_req, settings_req>>
  /\ UNCHANGED cvars
WorkerFinally1(w) ==
  /\ worker[w].pc = "finally1"
  /\ is_indexing' = [is_indexing EXCEPT ![worker[w].self] = FALSE]
  /\ worker' = [worker EXCEPT ![w].pc = "finally2"]
  /\ UNCHANGED <<chatbot, settings_model, _cancel_indexing, index_progress,
                 embedding_model_id, chroma, collection, bm25_file, pdf,
                 start_req, cancel_req, settings_req>>
  /\ UNCHANGED cvars

\* finally: self._cancel_indexing = False
WorkerFinally2(w) ==
  /\ worker[w].pc = "finally2"
  /\ _cancel_indexing' = [_cancel_indexing EXCEPT ![worker[w].self] = FALSE]
  /\ worker' = [worker EXCEPT ![w].pc = "done"]
  /\ UNCHANGED <<chatbot, settings_model, is_indexing, index_progress,
                 embedding_model_id, chroma, collection, bm25_file, pdf,
                 start_req, cancel_req, settings_req>>
  /\ UNCHANGED cvars

\* An exception that no handler inside the try block catches: thrown by
\* search_parent_items_with_pdfs (or get_indexed_item_ids) before the loops,
\* or by build_bm25_index after them. Control goes to the finally block.
WorkerRaises(w) ==
  /\ worker[w].pc \in {"begin", "bm25"}
  /\ worker' = [worker EXCEPT ![w].pc = "finally1", ![w].raised = TRUE]
  /\ UNCHANGED <<chatbot, settings_model, is_indexing, _cancel_indexing, index_progress,
                 embedding_model_id, chroma, collection, bm25_file, pdf,
                 start_req, cancel_req, settings_req>>
  /\ UNCHANGED cvars

(***************************************************************************)
(* main.py: update_settings (embeddingModel) and activate_profile.         *)
(***************************************************************************)
\* save_settings, then `chatbot.embedding_model_id = new_embedding_model`
SettingsSetModel(m) ==
  /\ settings_req.pc = "idle"
  /\ settings_req.count < MaxSwitches
  /\ Disturbances < MaxDisturb
  /\ m # embedding_model_id[chatbot]
  /\ settings_model' = m
  /\ embedding_model_id' = [embedding_model_id EXCEPT ![chatbot] = m]
  /\ settings_req' = [pc |-> "chroma", model |-> m, count |-> settings_req.count + 1]
  /\ UNCHANGED <<chatbot, is_indexing, _cancel_indexing, index_progress, chroma,
                 collection, bm25_file, pdf, start_req, cancel_req, worker>>
  /\ UNCHANGED cvars

\* `chatbot.chroma = ChromaClient(chroma_path, embedding_model_id=new_embedding_model)`
SettingsNewChroma ==
  /\ settings_req.pc = "chroma"
  /\ chroma' = [chroma EXCEPT ![chatbot] = settings_req.model]
  /\ settings_req' = [settings_req EXCEPT !.pc = "idle"]
  /\ UNCHANGED <<chatbot, settings_model, is_indexing, _cancel_indexing, index_progress,
                 embedding_model_id, collection, bm25_file, pdf,
                 start_req, cancel_req, worker>>
  /\ UNCHANGED cvars

\* `chatbot = initialize_chatbot()`: a new ZoteroChatbot from the saved settings
ActivateProfile ==
  /\ chatbot <= MaxActivations
  /\ Disturbances < MaxDisturb
  /\ chatbot' = chatbot + 1
  /\ embedding_model_id' = [embedding_model_id EXCEPT ![chatbot + 1] = settings_model]
  /\ chroma' = [chroma EXCEPT ![chatbot + 1] = settings_model]
  /\ UNCHANGED <<settings_model, is_indexing, _cancel_indexing, index_progress,
                 collection, bm25_file, pdf, start_req, cancel_req, settings_req, worker>>
  /\ UNCHANGED cvars

(***************************************************************************)
(* The chat controller (interface.py: ZoteroChatbot.chat) and its          *)
(* conversation store (conversation_store.py).                             *)
(***************************************************************************)
Sessions == 1..NumSessions
Queries == 1..NumQueries
ChatCalls == 1..MaxChats

\* len(ConversationStore.default_system_prompt)
SystemPromptLen == 303
\* chat: trim_messages_for_context(full_history, max_messages=20, max_chars=12000)
MaxMessages == 20
MaxChars == 12000
\* chat: snippet_text = (doc or "")[:800]
SnippetChars == 800

\* len(query): query 1 is an ordinary question, the last one a very long one
QueryLen(q) == IF q = NumQueries /\ q > 1 THEN 11900 ELSE 40
Message(role, kind, q, n, len) ==
  [role |-> role, kind |-> kind, q |-> q, n |-> n, len |-> len]

\* Message(role="system", content=self.default_system_prompt)
SystemMessage == Message("system", "system_prompt", 0, 0, SystemPromptLen)

\* _build_first_turn_message: the question alone when there are no snippets,
\* else question + "---\n**Evidence from library:**" + one block per snippet
\* (a header of about 60 characters and at most SnippetChars of text)
_build_first_turn_message(q, n) ==
  IF n = 0 THEN Message("user", "question", q, 0, QueryLen(q))
  ELSE Message("user", "question_with_evidence", q, n,
               QueryLen(q) + 32 + n * (SnippetChars + 60))

\* build_answer_prompt: the single-turn prompt (instructions, snippets, question)
build_answer_prompt(q, n) ==
  Message("user", "answer_prompt", q, n, QueryLen(q) + 600 + n * (SnippetChars + 60))

RECURSIVE SumLen(_)
SumLen(messages) ==
  IF messages = <<>> THEN 0 ELSE Head(messages).len + SumLen(Tail(messages))

\* the `for msg in reversed(conversation_messages)` loop of trim_messages_for_context
RECURSIVE KeepRecent(_, _, _, _, _)
KeepRecent(conversation_messages, kept_messages, char_count, max_messages, max_chars) ==
  IF conversation_messages = <<>> THEN kept_messages
  ELSE LET msg == conversation_messages[Len(conversation_messages)] IN
       IF Len(kept_messages) < max_messages /\ char_count + msg.len <= max_chars
       THEN KeepRecent(SubSeq(conversation_messages, 1, Len(conversation_messages) - 1),
                       <<msg>> \o kept_messages, char_count + msg.len,
                       max_messages, max_chars)
       ELSE kept_messages

\* ConversationStore.trim_messages_for_context
trim_messages_for_context_KeepOldest(messages, max_messages, max_chars) ==
  SubSeq(messages, 1, IF Len(messages) <= max_messages + 1 THEN Len(messages)
                      ELSE max_messages + 1)
trim_messages_for_context(messages, max_messages, max_chars) ==
  IF messages = <<>> THEN <<>>
  ELSE LET has_system == messages[1].role = "system"
           conversation_messages == IF has_system THEN Tail(messages) ELSE messages
       IN IF Len(conversation_messages) <= max_messages /\ SumLen(messages) <= max_chars
          THEN messages
          ELSE (IF has_system THEN <<messages[1]>> ELSE <<>>)
               \o KeepRecent(conversation_messages, <<>>,
                             IF has_system THEN messages[1].len ELSE 0,
                             max_messages, max_chars)

\* ConversationStore.get_messages: the session's messages, the session being
\* created with the system prompt when it does not exist
get_messages_NoSeed(sessions, session_id) == sessions[session_id]
get_messages(sessions, session_id) ==
  IF sessions[session_id] = <<>> THEN <<SystemMessage>> ELSE sessions[session_id]

\* the store after get_messages
Touched(sessions, session_id) ==
  [sessions EXCEPT ![session_id] = get_messages(sessions, session_id)]

\* ConversationStore.append_message
append_message(sessions, session_id, message) ==
  [sessions EXCEPT ![session_id] = Append(get_messages(sessions, session_id), message)]

\* ConversationStore.clear_session: `del self._sessions[session_id]` if present
clear_session(sessions, session_id) == [sessions EXCEPT ![session_id] = <<>>]

\* The store's methods called directly, each call atomic.
StoreGet(session_id) ==
  /\ _sessions' = Touched(_sessions, session_id)
  /\ UNCHANGED <<chat_call, store_takes_provider_id, fvars>>
  /\ UNCHANGED ivars

StoreAppend(session_id, role) ==
  /\ Len(_sessions[session_id]) < MaxLog
  /\ _sessions' = append_message(_sessions, session_id,
                                 Message(role, "direct", 1, 0, QueryLen(1)))
  /\ UNCHANGED <<chat_call, store_takes_provider_id, fvars>>
  /\ UNCHANGED ivars

StoreClear(session_id) ==
  /\ _sessions' = clear_session(_sessions, session_id)
  /\ UNCHANGED <<chat_call, store_takes_provider_id, fvars>>
  /\ UNCHANGED ivars

NoChat ==
  [pc |-> "idle", session_id |-> 0, query |-> 0, hits |-> 0,
   user_turns |-> 0, is_new_session |-> FALSE,
   user_message |-> "none",         \* kind of the user message built for the turn
   messages |-> <<>>,               \* what is sent to the language model
   summary |-> "none",
   snippets |-> 0,                  \* number of snippets in the value returned
   \* history, read by the properties only
   had_assistant |-> FALSE,         \* the history loaded held an assistant message
   lm_failed |-> FALSE,             \* the language-model call of the turn raised
   overlapped |-> FALSE]            \* another chat call was in flight when this one began

\* chat, step 1: load the conversation history. interface.py passes
\* provider_id=... to get_messages; conversation_store.py as present declares
\* get_messages(self, session_id) only, so with it the call raises TypeError
\* and the turn ends there; with a store that takes the keyword the turn goes on.
ChatLoad(c, session_id, query, hits) ==
  /\ chat_call[c].pc = "idle"
  /\ \A j \in ChatCalls : j < c => chat_call[j].pc # "idle"
  /\ LET new == [NoChat EXCEPT !.overlapped = \E j \in ChatCalls :
                     chat_call[j].pc \notin {"idle", "returned", "raised"}]
     IN
     IF session_id = 0
     THEN /\ chat_call' = [chat_call EXCEPT ![c] =
                [new EXCEPT !.pc = "build", !.query = query, !.hits = hits]]
          /\ UNCHANGED _sessions
     ELSE IF ~store_takes_provider_id
     THEN /\ chat_call' = [chat_call EXCEPT ![c] =
                [new EXCEPT !.pc = "raised", !.session_id = session_id,
                            !.query = query, !.hits = hits]]
          /\ UNCHANGED _sessions
     ELSE LET conversation_history == get_messages(_sessions, session_id)
              user_turns == Cardinality({n \in 1..Len(conversation_history) :
                                           conversation_history[n].role = "user"})
          IN
          /\ _sessions' = Touched(_sessions, session_id)
          /\ chat_call' = [chat_call EXCEPT ![c] =
                [new EXCEPT !.pc = "build", !.session_id = session_id,
                               !.query = query, !.hits = hits,
                               !.user_turns = user_turns,
                               !.is_new_session = (user_turns = 0),
                               !.had_assistant =
                                  \E n \in 1..Len(conversation_history) :
                                     conversation_history[n].role = "assistant"]]
  /\ UNCHANGED <<store_takes_provider_id, fvars>>
  /\ UNCHANGED ivars

\* chat, steps 2-4: retrieval (hits snippets), then the user message: appended
\* to the session, or the single-turn prompt when there is no session
ChatBuild(c) ==
  /\ chat_call[c].pc = "build"
  /\ LET call == chat_call[c]
         user_message ==
           IF call.is_new_session
           THEN _build_first_turn_message(call.query, call.hits)
           ELSE Message("user", "question", call.query, 0, QueryLen(call.query))
     IN
     IF call.session_id # 0
     THEN /\ _sessions' = append_message(_sessions, call.session_id, user_message)
          /\ chat_call' = [chat_call EXCEPT ![c].pc = "history",
                                            ![c].user_message = user_message.kind]
     ELSE /\ chat_call' = [chat_call EXCEPT
                ![c].pc = "generate",
                ![c].user_message = "answer_prompt",
                ![c].messages = <<build_answer_prompt(call.query, call.hits)>>]
          /\ UNCHANGED _sessions
  /\ UNCHANGED <<store_takes_provider_id, fvars>>
  /\ UNCHANGED ivars

\* chat, step 4 continued: re-read the history and trim it for the context window
ChatHistory(c) ==
  /\ chat_call[c].pc = "history"
  /\ LET full_history == get_messages(_sessions, chat_call[c].session_id) IN
     /\ _sessions' = Touched(_sessions, chat_call[c].session_id)
     /\ chat_call' = [chat_call EXCEPT
           ![c].pc = "generate",
           ![c].messages = trim_messages_for_context(full_history, MaxMessages, MaxChars)]
  /\ UNCHANGED <<store_takes_provider_id, fvars>>
  /\ UNCHANGED ivars

\* chat, the except branch of step 5: the summary when the language-model call fails
fallback_summary_ErrorOnly(hits) == "error_text"
fallback_summary(hits) == IF hits > 0 THEN "first_snippet" ELSE "error_text"

\* chat, steps 5-6: the language-model call. On success the answer is saved to
\* the session; on failure the summary falls back to the first snippet, or to
\* an error text, and nothing is saved. The title generation that follows
\* catches its own errors (generate_session_title), so the call returns.
ChatGenerate(c, ok) ==
  /\ chat_call[c].pc = "generate"
  /\ LET call == chat_call[c] IN
     IF ok
     THEN /\ _sessions' = IF call.session_id # 0
                          THEN append_message(_sessions, call.session_id,
                                 Message("assistant", "answer", call.query, 0, 200))
                          ELSE _sessions
          /\ chat_call' = [chat_call EXCEPT ![c].pc = "returned", ![c].summary = "answer",
                                            ![c].snippets = call.hits]
     ELSE /\ chat_call' = [chat_call EXCEPT
                ![c].pc = "returned",
                ![c].summary = fallback_summary(call.hits),
                ![c].snippets = call.hits,
                ![c].lm_failed = TRUE]
          /\ UNCHANGED _sessions
  /\ UNCHANGED <<store_takes_provider_id, fvars>>
  /\ UNCHANGED ivars

(***************************************************************************)
(* The specifications: the indexer with the requests that drive it, and    *)
(* the chat controller.                                                    *)
(***************************************************************************)
InitChat ==
  /\ _sessions = [s \in Sessions |-> <<>>]
  /\ chat_call = [c \in ChatCalls |-> NoChat]

\* no retrieval or filter function is being called
NoCall ==
  /\ request = [fn |-> "none"]
  /\ response = [done |-> FALSE]

Init ==
  /\ InitChat
  /\ store_takes_provider_id = FALSE
  /\ NoCall
  /\ chatbot = 1
  /\ settings_model = DEFAULT_MODEL_ID
  /\ is_indexing = [b \in Bots |-> FALSE]
  /\ _cancel_indexing = [b \in Bots |-> FALSE]
  /\ index_progress = [b \in Bots |-> InitProgress]
  /\ embedding_model_id = [b \in Bots |-> DEFAULT_MODEL_ID]
  /\ chroma = [b \in Bots |-> DEFAULT_MODEL_ID]
  /\ collection = [m \in Models |-> {}]
  /\ bm25_file = [m \in Models |-> {}]
  /\ pdf \in Catalogues
  /\ start_req = [k \in Calls |-> NoStart]
  /\ cancel_req = [c \in CancelCalls |-> NoCancel]
  /\ settings_req = [pc |-> "idle", model |-> DEFAULT_MODEL_ID, count |-> 0]
  /\ worker = [k \in Calls |-> NoWorker]

Next ==
  \/ \E k \in Calls : \E incremental \in BOOLEAN : StartCheck(k, incremental)
  \/ \E k \in Calls : StartSet(k)
  \/ \E c \in CancelCalls : CancelCheck(c)
  \/ \E c \in CancelCalls : CancelSet(c)
  \/ \E w \in Calls : WorkerBegin(w)
  \/ \E w \in Calls : WorkerExtract(w)
  \/ \E w \in Calls : WorkerVectorize(w)
  \/ \E w \in Calls : \E ok \in BOOLEAN : WorkerEmbed(w, ok)
  \/ \E w \in Calls : WorkerCheck(w)
  \/ \E w \in Calls : \E ok \in BOOLEAN : WorkerAdd(w, ok)
  \/ \E w \in Calls : WorkerBm25(w)
  \/ \E w \in Calls : WorkerFinally1(w)
  \/ \E w \in Calls : WorkerFinally2(w)
  \/ \E m \in Models : SettingsSetModel(m)
  \/ SettingsNewChroma
  \/ ActivateProfile

Spec == Init /\ [][Next]_vars

\* The fair specification starts as Init does, on a library whose last PDF has
\* text while the extractor raises on the others.
InitLive ==
  /\ Init
  /\ \A i \in Items : i < NumItems => pdf[i] = "error"

\* The indexer with jobs that may end by an uncaught exception, and with the
\* worker threads scheduled fairly: a thread that can take a step eventually
\* takes one. No fairness is assumed of the requests.
SpecLive ==
  /\ InitLive
  /\ [][Next \/ \E w \in Calls : WorkerRaises(w)]_vars
  /\ \A w \in Calls :
       WF_vars(\/ WorkerBegin(w) \/ WorkerExtract(w) \/ WorkerVectorize(w)
               \/ \E ok \in BOOLEAN : WorkerEmbed(w, ok)
               \/ WorkerCheck(w)
               \/ \E ok \in BOOLEAN : WorkerAdd(w, ok)
               \/ WorkerBm25(w) \/ WorkerFinally1(w) \/ WorkerFinally2(w))

\* a ZoteroChatbot just constructed, nothing indexed and no request in flight
InitIdle ==
  /\ chatbot = 1
  /\ settings_model = DEFAULT_MODEL_ID
  /\ is_indexing = [b \in Bots |-> FALSE]
  /\ _cancel_indexing = [b \in Bots |-> FALSE]
  /\ index_progress = [b \in Bots |-> InitProgress]
  /\ embedding_model_id = [b \in Bots |-> DEFAULT_MODEL_ID]
  /\ chroma = [b \in Bots |-> DEFAULT_MODEL_ID]
  /\ collection = [m \in Models |-> {}]
  /\ bm25_file = [m \in Models |-> {}]
  /\ pdf = [item \in Items |-> "text"]
  /\ start_req = [k \in Calls |-> NoStart]
  /\ cancel_req = [c \in CancelCalls |-> NoCancel]
  /\ settings_req = [pc |-> "idle", model |-> DEFAULT_MODEL_ID, count |-> 0]
  /\ worker = [k \in Calls |-> NoWorker]
  /\ InitChat

InitSpecChat ==
  /\ InitIdle
  /\ store_takes_provider_id \in BOOLEAN
  /\ NoCall

NextChat ==
  \/ \E c \in ChatCalls : \E session_id \in Sessions \cup {0} :
       \E query \in Queries : \E hits \in 0..MaxHits :
         ChatLoad(c, session_id, query, hits)
  \/ \E c \in ChatCalls : ChatBuild(c)
  \/ \E c \in ChatCalls : ChatHistory(c)
  \/ \E c \in ChatCalls : \E ok \in BOOLEAN : ChatGenerate(c, ok)

SpecChat == InitSpecChat /\ [][NextChat]_vars

\* the conversation store under direct calls of its methods
NextStore ==
  \/ \E session_id \in Sessions : StoreGet(session_id)
  \/ \E session_id \in Sessions : \E role \in {"user", "assistant"} :
       StoreAppend(session_id, role)
  \/ \E session_id \in Sessions : StoreClear(session_id)

SpecStore == InitSpecChat /\ [][NextStore]_vars

(***************************************************************************)
(* Properties of the indexer.                                              *)
(***************************************************************************)
\* the worker is in the body of its job (before the finally clause)
Indexing(w) ==
  worker[w].pc \in {"begin", "extract", "vectorize", "embed", "check", "add", "bm25"}

\* the worker has left its loops
Ended(w) == worker[w].pc \in {"finally1", "finally2", "done"}

\* w is the only job of the behaviour and nothing has disturbed it
OnlyJob(w) ==
  /\ Disturbances = 0
  /\ \A k \in Calls : k # w => start_req[k].pc = "idle"

ItemIds(coll) == {c.item_id : c \in coll}
Ids(coll) == {c.id : c \in coll}

\* C1: at every moment at most one indexing worker is running, whatever the
\* interleaving of start_indexing calls.
C1_AtMostOneWorker == Cardinality({w \in Calls : Indexing(w)}) <= 1

\* C2: when a job ends, skip_reasons names every item that failed (file
\* missing, parse error, empty text, zero chunks, embedding failure, dimension
\* mismatch, store write failure), in full and in incremental mode. Stated for
\* a job that ran alone and undisturbed.
C2_EveryFailureRecorded ==
  \A w \in Calls :
    (Ended(w) /\ OnlyJob(w)) =>
      \A item \in worker[w].failed :
        \E n \in 1..Len(index_progress[worker[w].self].skip_reasons) :
          index_progress[worker[w].self].skip_reasons[n].item = item

\* C3: an incremental job puts chunks into the store only for items that had no
\* chunk there when the job started, calls add_chunks on the collection it read
\* only for such items, removes or alters no chunk that was there, and when it
\* is done the indexed ids are the previous ones plus the newly written ones
\* (plus what other jobs wrote).
C3_IncrementalFrame ==
  \A w \in Calls :
    (worker[w].incremental /\ worker[w].pc # "none") =>
      /\ \A x \in worker[w].wrote : x[2][1] \notin ItemIds(worker[w].snap[x[1]])
      /\ \A x \in worker[w].added :
           x[1] = worker[w].read_from => x[2] \notin ItemIds(worker[w].snap[x[1]])
      /\ \A m \in Models : worker[w].snap[m] \subseteq collection[m]
      /\ worker[w].pc = "done" =>
           \A m \in Models :
             LET own == {x[2] : x \in {y \in worker[w].added : y[1] = m}}
                 others == {x[2][1] : x \in
                              {y \in UNION {worker[v].wrote : v \in Calls \ {w}} : y[1] = m}}
             IN /\ ItemIds(worker[w].snap[m]) \cup own \subseteq ItemIds(collection[m])
                /\ ItemIds(collection[m]) \subseteq
                     ItemIds(worker[w].snap[m]) \cup own \cup others

\* C3 witness: an incremental job is done, the store held chunks when it
\* started, and it has written chunks of a further item.
C3_Witness ==
  \E w \in Calls :
    /\ worker[w].incremental /\ worker[w].pc = "done"
    /\ worker[w].read_from \in Models
    /\ worker[w].snap[worker[w].read_from] # {}
    /\ \E x \in worker[w].wrote : x[1] = worker[w].read_from

C5_Bm25MatchesStore ==
  (/\ \E w \in Calls : worker[w].pc = "done"
   /\ \A w \in Calls : worker[w].pc \in {"none", "done"} /\ ~worker[w].broke
   /\ \A k \in Calls : start_req[k].pc # "checked")
  => \A m \in Models : bm25_file[m] = Ids(collection[m])

\* C6: once cancel_indexing has set the flag, the worker starts no further
\* chunk-embed call after the one in flight. Stated for a job that is the only
\* one of the behaviour.
C6_NoEmbedAfterCancel ==
  \A w \in Calls :
    (\A k \in Calls : k # w => start_req[k].pc = "idle") => worker[w].late_embeds <= 1

\* C7: a job that runs to its end without being cancelled has
\* processed_items = total_items. Stated for a job that ran alone and undisturbed.
C7_ProcessedEqualsTotal ==
  \A w \in Calls :
    (Ended(w) /\ OnlyJob(w) /\ ~worker[w].broke) =>
      index_progress[worker[w].self].processed_items
        = index_progress[worker[w].self].total_items

\* C8: every chunk the indexer writes carries an integer `year`.
C8_YearIsInteger ==
  \A m \in Models : \A c \in collection[m] : c.year.t = "int"

\* C9: every stored chunk's vector has the declared dimension of its
\* collection's embedding model.
C9_StoredDimension ==
  \A m \in Models : \A c \in collection[m] : c.dim = get_embedding_dimension(m)

WellPaired(log) ==
  log # <<>> =>
    /\ log[1].role = "system"
    /\ Len(log) % 2 = 1
    /\ \A n \in 2..Len(log) :
         IF n % 2 = 0 THEN log[n].role = "user"
         ELSE log[n].role = "assistant" /\ log[n].q = log[n - 1].q

C12_SystemPromptFirst ==
  \A s \in Sessions : _sessions[s] # <<>> => _sessions[s][1] = SystemMessage

\* C12 witness: a session created by a direct append_message holds the prompt
\* and the message, while another session does not exist.
C12_Witness ==
  \E s, t \in Sessions :
    /\ Len(_sessions[s]) >= 2 /\ _sessions[s][2].kind = "direct"
    /\ _sessions[t] = <<>>

\* C13: when the language-model call of a turn fails and at least one snippet
\* was retrieved, chat returns (it does not raise), its summary is the first
\* snippet's text, and it returns the snippets retrieved.
C13_FallbackToFirstSnippet ==
  \A c \in ChatCalls :
    (chat_call[c].lm_failed /\ chat_call[c].hits > 0)
    => /\ chat_call[c].pc = "returned"
       /\ chat_call[c].summary = "first_snippet"
       /\ chat_call[c].snippets = chat_call[c].hits

\* C13 witness: a turn with a snippet whose language-model call failed has returned.
C13_Witness ==
  \E c \in ChatCalls :
    /\ chat_call[c].lm_failed /\ chat_call[c].hits > 0
    /\ chat_call[c].pc = "returned"

(***************************************************************************)
(* chat, "Build snippets and citation map": the loop over the reranked     *)
(* passages (interface.py 629-683). A passage is its metadata; a value     *)
(* that is absent or empty in the metadata is written "None".              *)
(***************************************************************************)
max_snippets_per_paper == 3
\* `if len(snippets) >= 6: break`
MaxSnippets == 6

\* the passages one retrieval may hand to the loop
Metas ==
  { [title |-> "A", year |-> "2020", pdf_path |-> "a.pdf"],
    [title |-> "A", year |-> "2020", pdf_path |-> "a2.pdf"],
    [title |-> "A", year |-> "None", pdf_path |-> "a.pdf"],
    [title |-> "None", year |-> "2020", pdf_path |-> "None"] }

\* meta.get(name) or default
OrDefault(value, default) == IF value = "None" THEN default ELSE value

\* key = (title, year, pdf_path)
citation_key_PaperOnly(title, year, pdf_path) == <<title, year, "">>
citation_key(title, year, pdf_path) == <<title, year, pdf_path>>

\* paper_id = f"{title}_{year}"
paper_id(title, year) == <<title, "_", year>>

\* paper_snippet_count.get(paper_id, 0)
CountOf(paper_snippet_count, id) ==
  IF id \in DOMAIN paper_snippet_count THEN paper_snippet_count[id] ELSE 0

\* citation_map[key], citation_map being the (key, id) pairs in insertion order
IdOf(citation_map, key) ==
  (CHOOSE e \in {citation_map[n] : n \in 1..Len(citation_map)} : e.key = key).id

\* the loop `for doc, meta in zip(docs, metas)`
RECURSIVE build_snippets(_, _, _, _)
build_snippets(metas, snippets, citation_map, paper_snippet_count) ==
  IF metas = <<>> THEN [snippets |-> snippets, citation_map |-> citation_map]
  ELSE
    LET meta == Head(metas)
        title == OrDefault(meta.title, "Untitled")
        year == OrDefault(meta.year, "")
        pdf_path == OrDefault(meta.pdf_path, "")
        key == citation_key(title, year, pdf_path)
        id == paper_id(title, year)
    IN
    IF CountOf(paper_snippet_count, id) >= max_snippets_per_paper
    THEN build_snippets(Tail(metas), snippets, citation_map, paper_snippet_count)
    ELSE
      LET counted == [x \in DOMAIN paper_snippet_count \cup {id} |->
                        IF x = id THEN CountOf(paper_snippet_count, id) + 1
                        ELSE paper_snippet_count[x]]
          known == \E n \in 1..Len(citation_map) : citation_map[n].key = key
          map2 == IF known THEN citation_map
                  ELSE Append(citation_map, [key |-> key, id |-> Len(citation_map) + 1])
          snippets2 == Append(snippets,
                         [citation_id |-> IdOf(map2, key), title |-> title,
                          year |-> year, pdf_path |-> pdf_path])
      IN
      IF Len(snippets2) >= MaxSnippets
      THEN [snippets |-> snippets2, citation_map |-> map2]
      ELSE build_snippets(Tail(metas), snippets2, map2, counted)

\* citations = [... for (title, year, pdf_path), cid in citation_map.items()]
build_citations(citation_map) ==
  [n \in 1..Len(citation_map) |->
     [id |-> citation_map[n].id, title |-> citation_map[n].key[1],
      year |-> citation_map[n].key[2], pdf_path |-> citation_map[n].key[3]]]

\* the passages retrieved for one turn, at most MaxRetrieved of them
MaxRetrieved == 7
RetrievedLists == UNION {[1..n -> Metas] : n \in 0..MaxRetrieved}

InitSpecCite ==
  /\ InitIdle
  /\ store_takes_provider_id = FALSE
  /\ \E metas \in RetrievedLists : request = [fn |-> "build_snippets", metas |-> metas]
  /\ response = [done |-> FALSE]

BuildSnippets ==
  /\ request.fn = "build_snippets"
  /\ ~response.done
  /\ LET built == build_snippets(request.metas, <<>>, <<>>, <<>>) IN
     response' = [done |-> TRUE, snippets |-> built.snippets,
                  citations |-> build_citations(built.citation_map)]
  /\ UNCHANGED <<request, _sessions, chat_call, store_takes_provider_id>>
  /\ UNCHANGED ivars

NextCite == BuildSnippets

SpecCite == InitSpecCite /\ [][NextCite]_vars

\* (title, year, pdf_path) of a returned snippet
SnippetKey(snippet) == <<snippet.title, snippet.year, snippet.pdf_path>>

\* C14: in the value one turn returns, the citation ids are 1..N in the order
\* of the citation list; each snippet's id is the rank of its
\* (title, year, pdf_path) in order of first occurrence among the snippets;
\* two snippets have the same id exactly when they share (title, year,
\* pdf_path); and every snippet's id is the id of a citation, every citation
\* that of a snippet.
C14_CitationIds ==
  (request.fn = "build_snippets" /\ response.done) =>
    LET S == response.snippets
        C == response.citations
        FirstAt(i) == CHOOSE j \in 1..i :
                        /\ SnippetKey(S[j]) = SnippetKey(S[i])
                        /\ \A k \in 1..(j - 1) : SnippetKey(S[k]) # SnippetKey(S[i])
    IN
    /\ \A n \in 1..Len(C) : C[n].id = n
    /\ \A i \in 1..Len(S) :
         S[i].citation_id = Cardinality({SnippetKey(S[j]) : j \in 1..FirstAt(i)})
    /\ \A i, j \in 1..Len(S) :
         (S[i].citation_id = S[j].citation_id) <=> (SnippetKey(S[i]) = SnippetKey(S[j]))
    /\ \A i \in 1..Len(S) : \E n \in 1..Len(C) :
         /\ C[n].id = S[i].citation_id
         /\ <<C[n].title, C[n].year, C[n].pdf_path>> = SnippetKey(S[i])
    /\ \A n \in 1..Len(C) : \E i \in 1..Len(S) : S[i].citation_id = C[n].id

\* C14 witness: a turn whose passages hit the per-paper cap and the snippet
\* cap, and that returns snippets of one paper under two ids as well as two
\* snippets under one id.
C14_Witness ==
  /\ request.fn = "build_snippets" /\ response.done
  /\ Len(request.metas) > Len(response.snippets)
  /\ Len(response.snippets) = MaxSnippets
  /\ Len(response.citations) >= 3
  /\ \E i, j \in 1..Len(response.snippets) :
       /\ i # j /\ response.snippets[i].citation_id = response.snippets[j].citation_id
  /\ \E i, j \in 1..Len(response.snippets) :
       /\ response.snippets[i].title = response.snippets[j].title
       /\ response.snippets[i].year = response.snippets[j].year
       /\ response.snippets[i].citation_id # response.snippets[j].citation_id

(***************************************************************************)
(* metadata_utils.py: where clauses. A clause {key: value} is the record   *)
(* Node(key, op, val): a field condition {field: {op: target}} has the     *)
(* field as key; {"$and": [...]}, {"$or": [...]} and {"$not": {...}} have  *)
(* the operator as key and their clauses as val. A text is the sequence of *)
(* its characters.                                                         *)
(***************************************************************************)
Node(key, op, val) == [key |-> key, op |-> op, val |-> val]
None == Node("None", "", <<>>)
And(clauses) == Node("$and", "", clauses)
Or(clauses) == Node("$or", "", clauses)
Not(clause) == Node("$not", "", <<clause>>)

\* the texts used: a tag filter "nlp", the tags fields "NLP|ml" and "ml"
Text_nlp == <<"n", "l", "p">>
Text_NLP_ml == <<"N", "L", "P", "|", "m", "l">>
Text_ml == <<"m", "l">>

\* chunk metadata in the current format: every field is present
SENTINEL_YEAR == 0 - 1
Metadatas ==
  [year : {SENTINEL_YEAR, 2019, 2020, 2021}, tags : {Text_NLP_ml, Text_ml}, item_id : Items,
   collections : {Text_ml}, title : {Text_NLP_ml}, authors : {Text_ml},
   item_type : {"book"}]

\* str.lower()
LowerChar(ch) ==
  CASE ch = "N" -> "n" [] ch = "L" -> "l" [] ch = "P" -> "p" [] OTHER -> ch
Lower(text) == [n \in 1..Len(text) |-> LowerChar(text[n])]

\* `a in b` for strings
IsSubstring(a, b) ==
  \E n \in 0..Len(b) : n + Len(a) <= Len(b) /\ SubSeq(b, n + 1, n + Len(a)) = a

\* one `op, target` of a field condition
OpMatches(field_value, op, target) ==
  CASE op = "$eq" -> field_value = target
    [] op = "$ne" -> field_value # target
    [] op = "$gt" -> field_value > target
    [] op = "$gte" -> field_value >= target
    [] op = "$lt" -> field_value < target
    [] op = "$lte" -> field_value <= target
    [] op = "$contains" -> IsSubstring(Lower(target), Lower(field_value))
    [] op = "$in" -> field_value \in target
    [] op = "$nin" -> field_value \notin target

\* metadata_utils._matches_where_clause
RECURSIVE _matches_where_clause(_, _)
_matches_where_clause(metadata, where) ==
  IF where.key = "$and"
  THEN \A n \in 1..Len(where.val) : _matches_where_clause(metadata, where.val[n])
  ELSE IF where.key = "$or"
  THEN \E n \in 1..Len(where.val) : _matches_where_clause(metadata, where.val[n])
  ELSE IF where.key = "$not"
  THEN ~_matches_where_clause(metadata, where.val[1])
  ELSE OpMatches(metadata[where.key], where.op, where.val)

\* separate_where_clauses._has_contains
RECURSIVE _has_contains_TopOnly(_)
_has_contains_TopOnly(clause) == clause.op = "$contains"
RECURSIVE _has_contains(_)
_has_contains(clause) ==
  IF clause.key \in {"$and", "$or", "$not"}
  THEN \E n \in 1..Len(clause.val) : _has_contains(clause.val[n])
  ELSE clause.op = "$contains"

\* separate_where_clauses._extract_conditions
_extract_conditions_SplitOr(clause) ==
  IF clause.key \in {"$and", "$or"}
  THEN [chroma |-> SelectSeq(clause.val, LAMBDA c : ~_has_contains(c)),
        client |-> SelectSeq(clause.val, LAMBDA c : _has_contains(c))]
  ELSE IF _has_contains(clause)
  THEN [chroma |-> <<>>, client |-> <<clause>>]
  ELSE [chroma |-> <<clause>>, client |-> <<>>]
_extract_conditions(clause) ==
  IF clause.key = "$and"
  THEN [chroma |-> SelectSeq(clause.val, LAMBDA c : ~_has_contains(c)),
        client |-> SelectSeq(clause.val, LAMBDA c : _has_contains(c))]
  ELSE IF _has_contains(clause)
  THEN [chroma |-> <<>>, client |-> <<clause>>]
  ELSE [chroma |-> <<clause>>, client |-> <<>>]

\* "Build result clauses": None, the only condition, or their $and
Combined(conds) ==
  IF conds = <<>> THEN None
  ELSE IF Len(conds) = 1 THEN conds[1]
  ELSE And(conds)

\* metadata_utils.separate_where_clauses
separate_where_clauses(where) ==
  IF where.key = "None" THEN [chroma_where |-> None, client_where |-> None]
  ELSE LET conds == _extract_conditions(where) IN
       [chroma_where |-> Combined(conds.chroma), client_where |-> Combined(conds.client)]

\* the clauses a caller may pass: two field conditions, and $and, $or, $not over
\* clauses, nested twice, with at most MaxClauses clauses in a list
MaxClauses == 2
Leaves ==
  { Node("year", "$gte", 2020),
    Node("tags", "$contains", Text_nlp) }
ListsOver(S) == UNION {[1..n -> S] : n \in 0..MaxClauses}
Compounds(S) ==
  {And(l) : l \in ListsOver(S)} \cup {Or(l) : l \in ListsOver(S)} \cup {Not(c) : c \in S}
Nested1 == Leaves \cup Compounds(Leaves)

InitSpecWhere ==
  /\ InitIdle
  /\ store_takes_provider_id = FALSE
  /\ \E where \in Nested1 \cup {None} \cup {Not(c) : c \in Nested1}
                 \cup {Node(key, "", l) : key \in {"$and", "$or"}, l \in ListsOver(Nested1)} :
       request = [fn |-> "separate_where_clauses", where |-> where]
  /\ response = [done |-> FALSE]

SeparateWhere ==
  /\ request.fn = "separate_where_clauses"
  /\ ~response.done
  /\ LET parts == separate_where_clauses(request.where) IN
     response' = [done |-> TRUE, chroma_where |-> parts.chroma_where,
                  client_where |-> parts.client_where]
  /\ UNCHANGED <<request, _sessions, chat_call, store_takes_provider_id>>
  /\ UNCHANGED ivars

NextWhere == SeparateWhere

SpecWhere == InitSpecWhere /\ [][NextWhere]_vars

\* a clause mentions $contains somewhere
RECURSIVE MentionsContains(_)
MentionsContains(clause) ==
  \/ clause.op = "$contains"
  \/ /\ clause.key \in {"$and", "$or", "$not"}
     /\ \E n \in 1..Len(clause.val) : MentionsContains(clause.val[n])

\* a part of a split matches: an absent part counts as true
PartMatches(metadata, part) ==
  part.key = "None" \/ _matches_where_clause(metadata, part)

\* C16: the store part of a split clause mentions $contains at no depth.
C16_NoContainsInStorePart ==
  (request.fn = "separate_where_clauses" /\ response.done)
  => ~MentionsContains(response.chroma_where)

\* C16 witness: a clause with $contains two levels down was split and left a
\* store part.
C16_Witness ==
  /\ request.fn = "separate_where_clauses" /\ response.done
  /\ request.where.key = "$and"
  /\ \E n \in 1..Len(request.where.val) :
       /\ request.where.val[n].key = "$or"
       /\ MentionsContains(request.where.val[n])
  /\ response.chroma_where.key # "None"
  /\ response.client_where.key # "None"

InternalType(display_type) ==
  CASE display_type = "Journal Article" -> "journalArticle"
    [] display_type = "Book" -> "book"
    [] display_type = "Book Section" -> "bookSection"
    [] display_type = "Conference Paper" -> "conferencePaper"
    [] display_type = "Thesis" -> "thesis"
    [] display_type = "Preprint" -> "preprint"
    [] display_type = "Web Page" -> "webpage"
    [] display_type = "Report" -> "report"
    [] display_type = "Presentation" -> "presentation"
    [] display_type = "Manuscript" -> "manuscript"
    [] OTHER -> display_type

\* the condition for a list of tags or collections: one $contains, or their $or
AnyContains(field, values) ==
  IF values = <<>> THEN <<>>
  ELSE IF Len(values) = 1 THEN <<Node(field, "$contains", values[1])>>
  ELSE <<Or([n \in 1..Len(values) |-> Node(field, "$contains", values[n])])>>

build_metadata_where_clause(year_min, year_max, tags, collections, title, author, item_types) ==
  LET internal_types == [n \in 1..Len(item_types) |-> InternalType(item_types[n])]
      conditions ==
        (IF year_min # <<>> THEN <<Node("year", "$gte", year_min[1])>> ELSE <<>>)
        \o (IF year_max # <<>> THEN <<Node("year", "$lte", year_max[1])>> ELSE <<>>)
        \o AnyContains("tags", tags)
        \o AnyContains("collections", collections)
        \o (IF title # <<>> THEN <<Node("title", "$contains", title)>> ELSE <<>>)
        \o (IF author # <<>> THEN <<Node("authors", "$contains", author)>> ELSE <<>>)
        \o (IF item_types = <<>> THEN <<>>
            ELSE IF Len(internal_types) = 1
            THEN <<Node("item_type", "$eq", internal_types[1])>>
            ELSE <<Node("item_type", "$in",
                        {internal_types[n] : n \in 1..Len(internal_types)})>>)
  IN Combined(conditions)

\* the filters a caller may ask for
YearArgs == {<<>>, <<2019>>, <<2020>>, <<2021>>}
FilterArgs ==
  [year_min : YearArgs, year_max : YearArgs,
   tags : {<<>>, <<Text_nlp>>, <<Text_nlp, Text_ml>>},
   collections : {<<>>, <<Text_ml>>},
   title : {<<>>, Text_nlp},
   author : {<<>>, Text_ml},
   item_types : {<<>>, <<"Book">>, <<"Book", "thesis">>}]

InitSpecBuild ==
  /\ InitIdle
  /\ store_takes_provider_id = FALSE
  /\ \E args \in FilterArgs :
       request = [fn |-> "build_metadata_where_clause", args |-> args]
  /\ response = [done |-> FALSE]

BuildWhere ==
  /\ request.fn = "build_metadata_where_clause"
  /\ ~response.done
  /\ LET a == request.args IN
     response' = [done |-> TRUE,
                  where |-> build_metadata_where_clause(a.year_min, a.year_max, a.tags,
                               a.collections, a.title, a.author, a.item_types)]
  /\ UNCHANGED <<request, _sessions, chat_call, store_takes_provider_id>>
  /\ UNCHANGED ivars

NextBuild == BuildWhere

SpecBuild == InitSpecBuild /\ [][NextBuild]_vars

\* C18: a clause built with year_min and/or year_max matches no metadata whose
\* year is the -1 sentinel, and with year_min = year_max = Y it matches only
\* metadata whose year is Y.
C18_YearRangeExcludesSentinel ==
  (request.fn = "build_metadata_where_clause" /\ response.done) =>
    LET a == request.args IN
    /\ (a.year_min # <<>> \/ a.year_max # <<>>) =>
         \A m \in Metadatas :
           m.year = SENTINEL_YEAR => ~_matches_where_clause(m, response.where)
    /\ (a.year_min # <<>> /\ a.year_min = a.year_max) =>
         \A m \in Metadatas :
           _matches_where_clause(m, response.where) => m.year = a.year_min[1]

(***************************************************************************)
(* chat, step 3: retrieval through ChromaClient.query_hybrid, reranking,   *)
(* then the snippets. The collection holds NumDocs chunks, chunk c being   *)
(* of item ChunkItem(c); the dense ranking, the BM25 ranking and the       *)
(* cross-encoder's ranking are inputs.                                     *)
(***************************************************************************)
NumDocs == 4
MaxBm25Hits == 2
\* query_hybrid(..., k=15, ...)
RetrieveK_Wider == 15 + 5
RetrieveK == 15
\* rerank_passages(..., top_k=10)
RerankTopK == 10

Docs == 1..NumDocs
ChunkItem(c) == ((c - 1) % NumItems) + 1
ItemTitle(item) == IF item = 1 THEN "A" ELSE IF item = 2 THEN "B" ELSE "C"
ChunkMeta(c) ==
  [item_id |-> ChunkItem(c), title |-> ItemTitle(ChunkItem(c)), year |-> "2020",
   pdf_path |-> "None"]

Take(seq, n) == SubSeq(seq, 1, IF Len(seq) < n THEN Len(seq) ELSE n)

\* ChromaClient._matches_where_clause: the value of the clause's first key;
\* $contains compares case as it is
RECURSIVE ChromaClient_matches_where_clause(_, _)
ChromaClient_matches_where_clause(metadata, where) ==
  IF where.key = "$and"
  THEN \A n \in 1..Len(where.val) : ChromaClient_matches_where_clause(metadata, where.val[n])
  ELSE IF where.key = "$or"
  THEN \E n \in 1..Len(where.val) : ChromaClient_matches_where_clause(metadata, where.val[n])
  ELSE IF where.key = "$not"
  THEN ~ChromaClient_matches_where_clause(metadata, where.val[1])
  ELSE IF where.op = "$contains" THEN IsSubstring(where.val, metadata[where.key])
  ELSE OpMatches(metadata[where.key], where.op, where.val)

\* collection.query(n_results, where): the chunks the where clause admits, in
\* order of similarity, the first n_results of them
collection_query(similarity, n_results, where) ==
  Take(SelectSeq(similarity,
                 LAMBDA c : where.key = "None" \/ _matches_where_clause(ChunkMeta(c), where)),
       n_results)

\* the BM25 hits query_hybrid adds to the dense ones
bm25_added(bm25_results, seen, chroma_where, client_where) ==
  SelectSeq(bm25_results,
            LAMBDA c : /\ c \notin seen
                       /\ \/ client_where.key = "None"
                          \/ ChromaClient_matches_where_clause(ChunkMeta(c), client_where))

\* ChromaClient.query_hybrid: the ids of the combined result
query_hybrid(similarity, bm25_ranking, k, where) ==
  LET parts == separate_where_clauses(where)
      client == parts.client_where
      dense == collection_query(similarity, IF client.key # "None" THEN k * 2 ELSE k,
                                parts.chroma_where)
      dense_results ==
        IF client.key = "None" THEN dense
        ELSE SelectSeq(dense, LAMBDA c : _matches_where_clause(ChunkMeta(c), client))
      bm25_results == Take(bm25_ranking, k)
  IN dense_results \o
     bm25_added(bm25_results, {dense_results[n] : n \in 1..Len(dense_results)},
                parts.chroma_where, client)

\* rerank_passages(query, docs, top_k): the passages by cross-encoder score
rerank_passages(docs, relevance, top_k) ==
  Take(SelectSeq(relevance, LAMBDA c : \E n \in 1..Len(docs) : docs[n] = c), top_k)

Rankings == {r \in [Docs -> Docs] : \A a, b \in Docs : r[a] = r[b] => a = b}
Bm25Rankings ==
  {r \in UNION {[1..n -> Docs] : n \in 0..MaxBm25Hits} :
     \A a, b \in 1..Len(r) : r[a] = r[b] => a = b}
\* filter_item_ids: None or a list of item ids
ItemFilters == SUBSET Items

InitSpecRetrieve ==
  /\ InitIdle
  /\ store_takes_provider_id = FALSE
  /\ \E similarity \in Rankings : \E bm25 \in Bm25Rankings :
       \E relevance \in Rankings : \E filter_item_ids \in ItemFilters :
         request = [fn |-> "chat", similarity |-> similarity, bm25 |-> bm25,
                    relevance |-> relevance, filter_item_ids |-> filter_item_ids]
  /\ response = [done |-> FALSE, retrieved |-> FALSE]

\* chat, lines 606-627: db_filter, query_hybrid, rerank
ChatRetrieve ==
  /\ request.fn = "chat"
  /\ ~response.retrieved
  /\ LET db_filter == IF request.filter_item_ids # {}
                      THEN Node("item_id", "$in", request.filter_item_ids)
                      ELSE None
         docs == query_hybrid(request.similarity, request.bm25, RetrieveK, db_filter)
     IN
     response' = [done |-> FALSE, retrieved |-> TRUE,
                  docs |-> IF docs = <<>> THEN docs
                           ELSE rerank_passages(docs, request.relevance, RerankTopK)]
  /\ UNCHANGED <<request, _sessions, chat_call, store_takes_provider_id>>
  /\ UNCHANGED ivars

\* chat, lines 629-683: snippets and citations of the passages retrieved
ChatSnippets ==
  /\ request.fn = "chat"
  /\ response.retrieved /\ ~response.done
  /\ LET metas == [n \in 1..Len(response.docs) |-> ChunkMeta(response.docs[n])]
         built == build_snippets(metas, <<>>, <<>>, <<>>)
     IN
     response' = [done |-> TRUE, retrieved |-> TRUE, docs |-> response.docs,
                  snippets |-> built.snippets,
                  citations |-> build_citations(built.citation_map)]
  /\ UNCHANGED <<request, _sessions, chat_call, store_takes_provider_id>>
  /\ UNCHANGED ivars

NextRetrieve == ChatRetrieve \/ ChatSnippets

SpecRetrieve == InitSpecRetrieve /\ [][NextRetrieve]_vars

\* C15: when chat is given a non-empty filter_item_ids, every snippet and every
\* citation it returns is of an item in that set.
C15_OnlyFilteredItems ==
  (request.fn = "chat" /\ response.done /\ request.filter_item_ids # {}) =>
    /\ \A n \in 1..Len(response.snippets) :
         \E item \in request.filter_item_ids : response.snippets[n].title = ItemTitle(item)
    /\ \A n \in 1..Len(response.citations) :
         \E item \in request.filter_item_ids : response.citations[n].title = ItemTitle(item)

(***************************************************************************)
(* ChromaClient.query_hybrid_rrf, "Calculate RRF scores" and the sort      *)
(* (vector_db.py 255-269). The inputs are the two rankings as they are     *)
(* after filtering. A score is kept exactly, as a multiple of 1/RrfScale:  *)
(* the floating-point sums of the code are of at most two terms, equal for *)
(* equal terms in either order, and distinct sums differ by far more than  *)
(* the rounding.                                                           *)
(***************************************************************************)
\* rrf_k: int = 60
rrf_k == 60
MaxRanked == 3
MaxTopK == 3

\* the common denominator of 1/(rrf_k + 1) .. 1/(rrf_k + MaxRanked)
RECURSIVE RrfScaleTo(_)
RrfScaleTo(n) == IF n = 0 THEN 1 ELSE (rrf_k + n) * RrfScaleTo(n - 1)
RrfScale == RrfScaleTo(MaxRanked)

\* 1 / (rrf_k + rank + 1), rank counted from 0 by enumerate
rrf_term(rank) == RrfScale \div (rrf_k + rank + 1)

\* rrf_scores after both loops: the ids in order of insertion, and their scores
rrf_keys(dense_ids, bm25_ids) ==
  dense_ids \o SelectSeq(bm25_ids, LAMBDA d : \A n \in 1..Len(dense_ids) : dense_ids[n] # d)

RECURSIVE SumTerms(_, _, _)
SumTerms(ids, d, n) ==
  IF n > Len(ids) THEN 0
  ELSE (IF ids[n] = d THEN rrf_term(n - 1) ELSE 0) + SumTerms(ids, d, n + 1)

rrf_scores(dense_ids, bm25_ids, d) == SumTerms(dense_ids, d, 1) + SumTerms(bm25_ids, d, 1)

\* sorted(..., reverse=True) is stable: an id goes after the ids whose score
\* is higher or the same
sorted_insert_Unstable(sorted, d, dense_ids, bm25_ids) ==
  LET before == SelectSeq(sorted, LAMBDA e : rrf_scores(dense_ids, bm25_ids, e)
                                             > rrf_scores(dense_ids, bm25_ids, d))
  IN before \o <<d>> \o SubSeq(sorted, Len(before) + 1, Len(sorted))
sorted_insert(sorted, d, dense_ids, bm25_ids) ==
  LET before == SelectSeq(sorted, LAMBDA e : rrf_scores(dense_ids, bm25_ids, e)
                                             >= rrf_scores(dense_ids, bm25_ids, d))
  IN before \o <<d>> \o SubSeq(sorted, Len(before) + 1, Len(sorted))

RECURSIVE sorted_by_score(_, _, _, _)
sorted_by_score(keys, sorted, dense_ids, bm25_ids) ==
  IF keys = <<>> THEN sorted
  ELSE sorted_by_score(Tail(keys), sorted_insert(sorted, Head(keys), dense_ids, bm25_ids),
                       dense_ids, bm25_ids)

\* sorted_ids = sorted(rrf_scores.keys(), key=..., reverse=True)[:k]
rrf_sorted_ids(dense_ids, bm25_ids, k) ==
  Take(sorted_by_score(rrf_keys(dense_ids, bm25_ids), <<>>, dense_ids, bm25_ids), k)

\* a ranking: at most MaxRanked distinct chunks
RankedLists ==
  {r \in UNION {[1..n -> Docs] : n \in 0..MaxRanked} :
     \A a, b \in 1..Len(r) : r[a] = r[b] => a = b}

InitSpecRrf ==
  /\ InitIdle
  /\ store_takes_provider_id = FALSE
  /\ \E dense_ids \in RankedLists : \E bm25_ids \in RankedLists : \E k \in 1..MaxTopK :
       request = [fn |-> "query_hybrid_rrf", dense_ids |-> dense_ids,
                  bm25_ids |-> bm25_ids, k |-> k]
  /\ response = [done |-> FALSE]

RrfFuse ==
  /\ request.fn = "query_hybrid_rrf"
  /\ ~response.done
  /\ response' = [done |-> TRUE,
                  sorted_ids |-> rrf_sorted_ids(request.dense_ids, request.bm25_ids,
                                                request.k)]
  /\ UNCHANGED <<request, _sessions, chat_call, store_takes_provider_id>>
  /\ UNCHANGED ivars

NextRrf == RrfFuse

SpecRrf == InitSpecRrf /\ [][NextRrf]_vars

\* position of d in a ranking, counted from 1; 0 when it is not there
PositionIn(ids, d) ==
  IF \E n \in 1..Len(ids) : ids[n] = d THEN CHOOSE n \in 1..Len(ids) : ids[n] = d ELSE 0

\* the score of the claim, times RrfScale: the sum of 1/(60 + rank) over the
\* rankings that hold d
ClaimedScore(d) ==
  (IF PositionIn(request.dense_ids, d) > 0
   THEN RrfScale \div (60 + PositionIn(request.dense_ids, d)) ELSE 0)
  + (IF PositionIn(request.bm25_ids, d) > 0
     THEN RrfScale \div (60 + PositionIn(request.bm25_ids, d)) ELSE 0)

\* d comes before e: higher score, or the same score and earlier in the dense
\* ranking, then in the sparse one
ComesBefore(d, e) ==
  LET pd == PositionIn(request.dense_ids, d)
      pe == PositionIn(request.dense_ids, e)
  IN
  \/ ClaimedScore(d) > ClaimedScore(e)
  \/ /\ ClaimedScore(d) = ClaimedScore(e)
     /\ \/ pd > 0 /\ pe > 0 /\ pd < pe
        \/ pd > 0 /\ pe = 0
        \/ /\ pd = 0 /\ pe = 0
           /\ PositionIn(request.bm25_ids, d) < PositionIn(request.bm25_ids, e)

\* C20: the fused list is the first k documents of the two rankings in order of
\* descending score, equal scores in order of the dense ranking and then of the
\* sparse one; dense [1, 2, 3] and sparse [3, 4, 1] fuse to the top 3 [1, 3, 2].
C20_RrfOrder ==
  (request.fn = "query_hybrid_rrf" /\ response.done) =>
    LET ids == response.sorted_ids
        all == {request.dense_ids[n] : n \in 1..Len(request.dense_ids)}
               \cup {request.bm25_ids[n] : n \in 1..Len(request.bm25_ids)}
    IN
    /\ Len(ids) = IF Cardinality(all) < request.k THEN Cardinality(all) ELSE request.k
    /\ \A n \in 1..Len(ids) : ids[n] \in all
    /\ \A a, b \in 1..Len(ids) : a < b => ComesBefore(ids[a], ids[b])
    /\ \A n \in 1..Len(ids) : \A e \in all :
         ComesBefore(e, ids[n]) => \E a \in 1..(n - 1) : ids[a] = e
    /\ (request.dense_ids = <<1, 2, 3>> /\ request.bm25_ids = <<3, 4, 1>> /\ request.k = 3)
       => ids = <<1, 3, 2>>

\* C20 witness: the rankings [1, 2, 3] and [3, 4, 1] were fused to three ids, with
\* two ties between the scores.
C20_Witness ==
  /\ request.fn = "query_hybrid_rrf" /\ response.done
  /\ request.dense_ids = <<1, 2, 3>> /\ request.bm25_ids = <<3, 4, 1>> /\ request.k = 3
  /\ Len(response.sorted_ids) = 3
  /\ ClaimedScore(1) = ClaimedScore(3) /\ ClaimedScore(2) = ClaimedScore(4)

(***************************************************************************)
(* metadata_version.py: the format of the metadata in the collection, and  *)
(* what chat does with it. A sampled metadata dict is one of MetaKinds.    *)
(***************************************************************************)
CURRENT_METADATA_VERSION == 2
LEGACY_METADATA_VERSION == 1
MaxSample == 3

\* what collection.get(limit=10) may return for a chunk: its year an int, None,
\* a string or something else, with or without the tags and collections keys;
\* or an empty dict
MetaKinds ==
  {[empty |-> TRUE, year |-> "None", has_tags |-> FALSE, has_collections |-> FALSE]}
  \cup [empty : {FALSE}, year : {"int", "None", "str", "float"},
        has_tags : BOOLEAN, has_collections : BOOLEAN]
Samples == UNION {[1..n -> MetaKinds] : n \in 0..MaxSample}

\* the vote of one sampled chunk: 2, 1, or 0 for none
VersionVote(meta) ==
  IF meta.empty THEN 0
  ELSE IF meta.year \in {"int", "None"} /\ meta.has_tags /\ meta.has_collections THEN 2
  ELSE IF meta.year = "str" \/ ~(meta.has_tags /\ meta.has_collections) THEN 1
  ELSE 0

\* MetadataVersionManager.detect_metadata_version on a new manager: 0 when the
\* read fails or nothing votes, else the majority; max(set(votes), key=count)
\* returns the first of the set {1, 2} on a tie
detect_metadata_version(get_fails, sample) ==
  LET votes(v) == Cardinality({n \in 1..Len(sample) : VersionVote(sample[n]) = v}) IN
  IF get_fails \/ sample = <<>> THEN 0
  ELSE IF votes(1) = 0 /\ votes(2) = 0 THEN 0
  ELSE IF votes(2) > votes(1) THEN 2
  ELSE 1

\* metadata_version.check_metadata_compatibility
check_metadata_compatibility_Always(get_fails, sample, enable_filtering) == TRUE
check_metadata_compatibility(get_fails, sample, enable_filtering) ==
  IF ~enable_filtering THEN TRUE
  ELSE detect_metadata_version(get_fails, sample) = CURRENT_METADATA_VERSION

\* manual_filters of a chat request: none, or a year range
NoFilters ==
  [year_min |-> <<>>, year_max |-> <<>>, tags |-> <<>>, collections |-> <<>>,
   title |-> <<>>, author |-> <<>>, item_types |-> <<>>]
ManualFilters ==
  {NoFilters, [NoFilters EXCEPT !.year_min = <<2020>>],
   [NoFilters EXCEPT !.year_min = <<2019>>, !.tags = <<Text_nlp>>]}

InitSpecLegacy ==
  /\ InitIdle
  /\ store_takes_provider_id = FALSE
  /\ \E get_fails \in BOOLEAN : \E sample \in Samples :
       \E use_metadata_filters \in BOOLEAN : \E manual_filters \in ManualFilters :
         request = [fn |-> "chat_filters", get_fails |-> get_fails, sample |-> sample,
                    use_metadata_filters |-> use_metadata_filters,
                    manual_filters |-> manual_filters]
  /\ response = [done |-> FALSE]

\* chat(..., use_metadata_filters, manual_filters): the where clause handed to
\* the retrieval and the warning returned. With filtering asked for and a
\* collection that is not compatible, no clause is applied and a warning is set.
ChatResolveFilters ==
  /\ request.fn = "chat_filters"
  /\ ~response.done
  /\ LET a == request.manual_filters
         compatible == check_metadata_compatibility(request.get_fails, request.sample,
                                                    request.use_metadata_filters)
         where == build_metadata_where_clause(a.year_min, a.year_max, a.tags,
                                              a.collections, a.title, a.author,
                                              a.item_types)
     IN
     response' =
       IF ~request.use_metadata_filters
       THEN [done |-> TRUE, where |-> None, warning |-> FALSE]
       ELSE IF compatible
       THEN [done |-> TRUE, where |-> where, warning |-> FALSE]
       ELSE [done |-> TRUE, where |-> None, warning |-> TRUE]
  /\ UNCHANGED <<request, _sessions, chat_call, store_takes_provider_id>>
  /\ UNCHANGED ivars

NextLegacy == ChatResolveFilters

SpecLegacy == InitSpecLegacy /\ [][NextLegacy]_vars

MaxExtracts == 2
MaxAppends == 1

\* metadata_extractor._EMPTY as the module is loaded; None is <<>>, a value v
\* is <<v>>
_EMPTY ==
  [year_min |-> <<>>, year_max |-> <<>>, tags |-> <<>>, collections |-> <<>>,
   author |-> <<>>, title |-> <<>>, item_types |-> <<>>, has_filters |-> FALSE]

\* what json.loads gives for the answers of the model explored: year_min
\* absent, 0 or 2020, tags absent or one tag, author absent, "" or a name
Extracted ==
  {[year_min |-> y, tags |-> t, author |-> a] :
     y \in {<<>>, <<0>>, <<2020>>}, t \in {<<>>, <<"nlp">>},
     a \in {<<>>, <<"">>, <<"berlant">>}}

\* MetadataExtractor._extract_with_llm after json.loads: `x or None`, `x or []`
\* and the truthiness test that sets has_filters
_extract_with_llm(extracted) ==
  LET author == IF extracted.author = <<"">> THEN <<>> ELSE extracted.author
      year_set == extracted.year_min # <<>> /\ extracted.year_min # <<0>>
  IN [_EMPTY EXCEPT !.year_min = extracted.year_min, !.tags = extracted.tags,
                    !.author = author,
                    !.has_filters = year_set \/ extracted.tags # <<>> \/ author # <<>>]

\* MetadataExtractor.extract_filters. outcome: no provider_manager, the LM call
\* raises, json.loads raises, or the answer parses. The three failures return
\* dict(_EMPTY): a new dict whose list values are the lists of _EMPTY itself
\* (shares_lists).
ExtractFilters(outcome, extracted) ==
  /\ request.fn = "extract_filters"
  /\ request.calls < MaxExtracts
  /\ LET filters == IF outcome = "parsed" THEN _extract_with_llm(extracted)
                    ELSE request.sentinel
     IN response' = [done |-> TRUE, outcome |-> outcome, returned |-> filters,
                     filters |-> filters, shares_lists |-> outcome # "parsed"]
  /\ request' = [request EXCEPT !.calls = @ + 1]
  /\ UNCHANGED <<_sessions, chat_call, store_takes_provider_id>>
  /\ UNCHANGED ivars

\* A caller appends to a list of the result it holds (filters[field].append).
\* When the result is a copy of the sentinel the list is the sentinel's own.
CallerAppends(field) ==
  /\ request.fn = "extract_filters"
  /\ response.done
  /\ Len(response.filters[field]) < MaxAppends
  /\ response' = [response EXCEPT !.filters[field] = Append(@, "nlp")]
  /\ request' = IF response.shares_lists
                THEN [request EXCEPT !.sentinel[field] = Append(@, "nlp")]
                ELSE request
  /\ UNCHANGED <<_sessions, chat_call, store_takes_provider_id>>
  /\ UNCHANGED ivars

\* A caller assigns a scalar of the result it holds (filters["author"] = ...):
\* the dict is its own copy.
CallerAssigns ==
  /\ request.fn = "extract_filters"
  /\ response.done
  /\ response.filters.author = <<>>
  /\ response' = [response EXCEPT !.filters.author = <<"berlant">>]
  /\ UNCHANGED <<request, _sessions, chat_call, store_takes_provider_id>>
  /\ UNCHANGED ivars

\* chunks in the collection when the migration runs, migrate_all_metadata
\* calls on one MetadataMigration, and the batch sizes tried
NumStored == 2
MaxMigrations == 2

\* A value with its Python type: metadata values are compared with their type
\* by the store ("5" is not 5).
Typed(t, v) == [t |-> t, v |-> v]

\* Chunk metadata found in the collection. item_id is the string the indexer
\* wrote (0 stands for a missing or empty item_id); year is a legacy string
\* ("2020" or ""), an integer (2020 or -1) or absent; item_type may be absent.
StoredMetas ==
  {[item_id |-> Typed("str", i), chunk_idx |-> 0, page |-> 1, pdf_path |-> "a.pdf",
    year |-> y, tags |-> "", collections |-> "", item_type |-> it] :
     i \in 0..2,
     y \in {Typed("str", 2020), Typed("str", 0), Typed("int", 2020),
            Typed("int", 0 - 1), Typed("none", 0)},
     it \in {"absent", "book"}}

\* item_metadata_cache built from search_parent_items_with_pdfs(): item 1 is in
\* the catalogue, with a date that holds a year or not; item 2 may be missing
Caches ==
  {[i \in dom |-> [year |-> IF i = 1 THEN y ELSE <<>>,
                   tags |-> IF i = 1 THEN t ELSE "", collections |-> "",
                   item_type |-> "book"]] :
     dom \in {{1}, {1, 2}}, y \in {<<>>, <<2020>>, <<2021>>}, t \in {"", "nlp"}}

\* MetadataMigration._needs_update
_needs_update(old_meta, new_meta) ==
  \/ old_meta.year.t = "str" /\ new_meta.year.t \in {"int", "none"}
  \/ old_meta.year.t = "none" /\ new_meta.year.t = "int"
  \/ old_meta.tags # new_meta.tags
  \/ old_meta.collections # new_meta.collections
  \/ old_meta.item_type = "absent" /\ new_meta.item_type # ""

\* MetadataMigration._migrate_batch, the body of its loop for one chunk whose
\* item is in the cache: the new metadata dict (item ids are digit strings)
new_meta(old_meta, cache) ==
  LET updated_item_meta == cache[old_meta.item_id.v] IN
  [item_id |-> Typed("int", old_meta.item_id.v),
   chunk_idx |-> old_meta.chunk_idx, page |-> old_meta.page,
   pdf_path |-> old_meta.pdf_path,
   tags |-> updated_item_meta.tags, collections |-> updated_item_meta.collections,
   year |-> IF updated_item_meta.year = <<>> THEN Typed("int", 0 - 1)
            ELSE Typed("int", updated_item_meta.year[1]),
   item_type |-> updated_item_meta.item_type]

\* MetadataMigration.migrate_all_metadata on the collection held in
\* request.chunks. zlib_fails: search_parent_items_with_pdfs raises;
\* update_fails: the number of the batch whose collection.update raises (0 for
\* none), which ends the call with that exception after the earlier batches
\* were written. self.progress is kept from one call to the next.
MigrateAllMetadata(batch_size, zlib_fails, update_fails) ==
  /\ request.fn = "migrate_all_metadata"
  /\ request.calls < MaxMigrations
  /\ LET chunks == request.chunks
         cache == request.cache
         n == Len(chunks)
         batch(c) == ((c - 1) \div batch_size) + 1
         fails(c) == chunks[c].meta.item_id.v = 0
                     \/ chunks[c].meta.item_id.v \notin DOMAIN cache
         updates(c) == ~fails(c)
                       /\ _needs_update(chunks[c].meta, new_meta(chunks[c].meta, cache))
         raised == /\ ~zlib_fails
                   /\ \E c \in 1..n : batch(c) = update_fails /\ updates(c)
         reached(c) == ~raised \/ batch(c) <= update_fails
         written(c) == ~raised \/ batch(c) < update_fails
         failed_chunks == request.progress.failed_chunks
                          + Cardinality({c \in 1..n : reached(c) /\ fails(c)})
         updated_chunks == request.progress.updated_chunks
                           + Cardinality({c \in 1..n : reached(c) /\ updates(c)})
     IN
     IF zlib_fails
     THEN /\ response' = [done |-> TRUE, raised |-> FALSE, success |-> FALSE,
                          failed_chunks |-> n]
          /\ request' = [request EXCEPT !.calls = @ + 1]
     ELSE /\ response' = [done |-> TRUE, raised |-> raised,
                          success |-> ~raised /\ failed_chunks = 0,
                          failed_chunks |-> failed_chunks]
          /\ request' =
               [request EXCEPT
                  !.calls = @ + 1,
                  !.progress = [failed_chunks |-> failed_chunks,
                                updated_chunks |-> updated_chunks],
                  !.chunks = [c \in 1..n |->
                                IF updates(c) /\ written(c)
                                THEN [chunks[c] EXCEPT !.meta = new_meta(@, cache)]
                                ELSE chunks[c]]]
  /\ UNCHANGED <<_sessions, chat_call, store_takes_provider_id>>
  /\ UNCHANGED ivars

InitSpecServices ==
  /\ InitIdle
  /\ store_takes_provider_id = FALSE
  /\ \/ request = [fn |-> "extract_filters", sentinel |-> _EMPTY, calls |-> 0]
     \/ \E metas \in [1..NumStored -> StoredMetas] : \E cache \in Caches :
          request = [fn |-> "migrate_all_metadata", calls |-> 0, cache |-> cache,
                     progress |-> [failed_chunks |-> 0, updated_chunks |-> 0],
                     before |-> [c \in 1..NumStored |->
                                   [id |-> c, document |-> c, meta |-> metas[c]]],
                     chunks |-> [c \in 1..NumStored |->
                                   [id |-> c, document |-> c, meta |-> metas[c]]]]
  /\ response = [done |-> FALSE]

NextServices ==
  \/ \E outcome \in {"no_provider", "lm_error", "parse_error", "parsed"} :
       \E extracted \in Extracted : ExtractFilters(outcome, extracted)
  \/ \E field \in {"tags", "collections", "item_types"} : CallerAppends(field)
  \/ CallerAssigns
  \/ \E batch_size \in 1..NumStored : \E zlib_fails \in BOOLEAN :
       \E update_fails \in 0..NumStored :
         MigrateAllMetadata(batch_size, zlib_fails, update_fails)

SpecServices == InitSpecServices /\ [][NextServices]_vars

\* C21: a call of extract_filters that had no provider, whose LM call failed
\* or whose answer did not parse returned has_filters = false, every list
\* empty and every scalar null.
C21_FailureGivesEmptyFilters ==
  ( /\ request.fn = "extract_filters" /\ response.done
    /\ response.outcome # "parsed" )
  => response.returned = _EMPTY

\* C22: the migration leaves every chunk's id, document (text and vector) and
\* the item_id, chunk_idx, page and pdf_path of its metadata as they were, and
\* adds or removes no chunk.
C22_MigrationFrame ==
  request.fn = "migrate_all_metadata"
  => /\ Len(request.chunks) = Len(request.before)
     /\ \A c \in 1..Len(request.chunks) :
          /\ request.chunks[c].id = request.before[c].id
          /\ request.chunks[c].document = request.before[c].document
          /\ request.chunks[c].meta.item_id = request.before[c].meta.item_id
          /\ request.chunks[c].meta.chunk_idx = request.before[c].meta.chunk_idx
          /\ request.chunks[c].meta.page = request.before[c].meta.page
          /\ request.chunks[c].meta.pdf_path = request.before[c].meta.pdf_path

\* C23: after a migration that reports success every chunk's year is an
\* integer, and it is -1 exactly when the catalogue gives no year for the item.
C23_YearAfterMigration ==
  ( /\ request.fn = "migrate_all_metadata" /\ response.done
    /\ response.success )
  => \A c \in 1..Len(request.chunks) :
       LET meta == request.chunks[c].meta IN
       /\ meta.year.t = "int"
       /\ (meta.year.v = 0 - 1) <=> (request.cache[meta.item_id.v].year = <<>>)

(***************************************************************************)
(* Functions of one call: trimming a history for the context window        *)
(* (backend/conversation_store.py), the retrieval widths of a chat         *)
(* (backend/interface.py), the two predicate evaluators                    *)
(* (backend/vector_db.py, backend/metadata_utils.py), the query condenser  *)
(* (backend/query_condenser.py) and the provider manager                   *)
(* (backend/model_providers/__init__.py). `request` holds the arguments    *)
(* and the manager's fields, `response` the result.                        *)
(***************************************************************************)
\* messages after the system prompt in a history handed to the trimming, and
\* the largest max_messages and max_chars (in hundreds) tried; the messages
\* are 100 or 300 characters long
MaxConversation == 3
MaxMessagesCap == 2
MaxCharsCap == 10

\* histories as get_messages returns them: the system prompt, then user and
\* assistant messages; a message is its role and the length of its content
RECURSIVE Histories(_)
Histories(n) ==
  IF n = 0 THEN {<<SystemMessage>>}
  ELSE Histories(n - 1)
       \cup {Append(h, Message(r, "direct", 1, 0, c)) :
               h \in {g \in Histories(n - 1) : Len(g) = n},
               r \in {"user", "assistant"}, c \in {100, 300}}

\* set_active_provider and set_credentials calls on one ProviderManager
MaxManagerCalls == 3

\* BaseProvider.default_model of two of the registered providers
default_model(provider_id) == IF provider_id = "ollama" THEN "llama3.2" ELSE "gpt-4o-mini"

\* ProviderManager.chat: what is handed to provider.chat, or ProviderError.
\* self is the manager (active_provider_id, active_model, credentials);
\* "none" is None; credentials.get(pid, {}) is "empty" when nothing is stored.
ProviderManager_chat_ActiveCredentials(self, provider_id, model) ==
  [raised |-> FALSE, provider |-> self.active_provider_id,
   model |-> IF self.active_model # "none" THEN self.active_model
             ELSE default_model(self.active_provider_id),
   credentials |-> self.credentials["ollama"]]
ProviderManager_chat(self, provider_id, model) ==
  LET pid == IF provider_id # "none" THEN provider_id ELSE self.active_provider_id
      model_id == IF model # "none" THEN model
                  ELSE IF pid = self.active_provider_id THEN self.active_model
                  ELSE "none"
  IN IF pid \notin {"ollama", "openai"}
     THEN [raised |-> TRUE]
     ELSE [raised |-> FALSE, provider |-> pid,
           model |-> IF model_id = "none" THEN default_model(pid) ELSE model_id,
           credentials |-> self.credentials[pid]]

\* ProviderManager.set_active_provider: an unknown id raises and changes nothing
SetActiveProvider(provider_id, model) ==
  /\ request.fn = "ProviderManager"
  /\ request.calls < MaxManagerCalls
  /\ IF provider_id \notin {"ollama", "openai"}
     THEN /\ request' = [request EXCEPT !.calls = @ + 1]
          /\ response' = [done |-> TRUE, op |-> "set_active_provider", raised |-> TRUE]
     ELSE /\ request' = [request EXCEPT !.calls = @ + 1,
                                        !.self.active_provider_id = provider_id,
                                        !.self.active_model = model]
          /\ response' = [done |-> TRUE, op |-> "set_active_provider", raised |-> FALSE]
  /\ UNCHANGED <<_sessions, chat_call, store_takes_provider_id>>
  /\ UNCHANGED ivars

\* ProviderManager.set_credentials
SetCredentials(provider_id, credentials) ==
  /\ request.fn = "ProviderManager"
  /\ request.calls < MaxManagerCalls
  /\ request' = [request EXCEPT !.calls = @ + 1,
                                !.self.credentials[provider_id] = credentials]
  /\ response' = [done |-> TRUE, op |-> "set_credentials", raised |-> FALSE]
  /\ UNCHANGED <<_sessions, chat_call, store_takes_provider_id>>
  /\ UNCHANGED ivars

\* ProviderManager.chat(messages, provider_id, model)
ProviderChat(provider_id, model) ==
  /\ request.fn = "ProviderManager"
  /\ response' = [done |-> TRUE, op |-> "chat", provider_id |-> provider_id,
                  model |-> model,
                  sent |-> ProviderManager_chat(request.self, provider_id, model)]
  /\ UNCHANGED <<request, _sessions, chat_call, store_takes_provider_id>>
  /\ UNCHANGED ivars

\* get_retrieval_limits(is_focused): the widths and caps of one chat, the base
\* values (those of the broad chat; 25, 15, 8 and 10 when focused) times a
\* factor taken from the context length of the active model; <<>> is an
\* unknown context length
get_retrieval_limits(context_length, is_focused) ==
  LET n == IF context_length = <<>> THEN 0 ELSE context_length[1]
      multiplier == IF n >= 1000000 THEN 5
                    ELSE IF n >= 200000 THEN 4
                    ELSE IF n >= 100000 THEN 3
                    ELSE IF n >= 32000 THEN 2
                    ELSE 1
  IN [retrieval_k |-> (IF is_focused THEN 25 ELSE RetrieveK) * multiplier,
      rerank_top_k |-> (IF is_focused THEN 15 ELSE RerankTopK) * multiplier,
      max_snippets_per_paper |->
        (IF is_focused THEN 8 ELSE max_snippets_per_paper) * multiplier,
      max_total_snippets |-> (IF is_focused THEN 10 ELSE MaxSnippets) * multiplier]

GetRetrievalLimits ==
  /\ request.fn = "get_retrieval_limits"
  /\ ~response.done
  /\ response' = [done |-> TRUE,
                  limits |-> get_retrieval_limits(request.context_length,
                                                  request.is_focused)]
  /\ UNCHANGED <<request, _sessions, chat_call, store_takes_provider_id>>
  /\ UNCHANGED ivars

\* One result with its metadata under a where clause, as a sparse (BM25)
\* result in ChromaClient._filter_bm25_results and as a dense result in
\* metadata_utils.apply_client_side_filters: whether each keeps it.
FilterResult ==
  /\ request.fn = "filter_result"
  /\ ~response.done
  /\ response' = [done |-> TRUE,
                  sparse_kept |-> ChromaClient_matches_where_clause(request.metadata,
                                                                    request.where),
                  dense_kept |-> _matches_where_clause(request.metadata, request.where)]
  /\ UNCHANGED <<request, _sessions, chat_call, store_takes_provider_id>>
  /\ UNCHANGED ivars

\* pieces in an answer of the LM to the condensation prompt
MaxPieces == 4

\* QueryCondenser.condense_query after the LM answered. content is the answer
\* as a sequence of pieces: a double quote, a single quote, a blank, a letter
\* ("x"), a run of 150 letters ("text") or the 20 characters
\* "standalone question:" in any case ("label"). The result is <<"original">>
\* when the query is returned, else <<"standalone", the pieces returned>>.
condense_query(content) ==
  LET strip(seq, chars) ==
        IF \A n \in 1..Len(seq) : seq[n] \in chars THEN <<>>
        ELSE SubSeq(seq,
                    CHOOSE i \in 1..Len(seq) :
                      seq[i] \notin chars /\ \A n \in 1..(i - 1) : seq[n] \in chars,
                    CHOOSE j \in 1..Len(seq) :
                      seq[j] \notin chars /\ \A n \in (j + 1)..Len(seq) : seq[n] \in chars)
      count(seq, piece) == Cardinality({n \in 1..Len(seq) : seq[n] = piece})
      len(seq) == Len(seq) + 19 * count(seq, "label") + 149 * count(seq, "text")
      standalone_query == strip(content, {" "})
      unquoted == strip(strip(standalone_query, {"dquote"}), {"squote"})
  IN IF len(standalone_query) < 5 \/ len(standalone_query) > 300
     THEN <<"original">>
     ELSE IF unquoted # <<>> /\ unquoted[1] = "label"
     THEN <<"standalone", strip(Tail(unquoted), {" "})>>
     ELSE <<"standalone", unquoted>>

\* QueryCondenser.condense_query(query, conversation_history): the query is
\* returned as it is when there is no history to show or when the LM call
\* raises
CondenseQuery ==
  /\ request.fn = "condense_query"
  /\ ~response.done
  /\ response' = [done |-> TRUE,
                  result |-> IF ~request.has_history \/ request.lm_fails
                             THEN <<"original">>
                             ELSE condense_query(request.content)]
  /\ UNCHANGED <<request, _sessions, chat_call, store_takes_provider_id>>
  /\ UNCHANGED ivars

TrimMessages ==
  /\ request.fn = "trim_messages_for_context"
  /\ ~response.done
  /\ response' = [done |-> TRUE,
                  messages |-> trim_messages_for_context(request.messages,
                                                         request.max_messages,
                                                         request.max_chars)]
  /\ UNCHANGED <<request, _sessions, chat_call, store_takes_provider_id>>
  /\ UNCHANGED ivars

InitSpecCalls ==
  /\ InitIdle
  /\ store_takes_provider_id = FALSE
  /\ \/ \E messages \in Histories(MaxConversation) :
          \E max_messages \in 1..MaxMessagesCap : \E max_chars \in 1..MaxCharsCap :
            request = [fn |-> "trim_messages_for_context", messages |-> messages,
                       max_messages |-> max_messages, max_chars |-> 100 * max_chars]
     \/ \E context_length \in
            {<<>>} \cup {<<n>> : n \in {0, 16385, 31999, 32000, 32768, 99999, 100000,
                                        100001, 128000, 199999, 200000, 999999,
                                        1000000, 2000000}} :
          \E is_focused \in BOOLEAN :
            request = [fn |-> "get_retrieval_limits", context_length |-> context_length,
                       is_focused |-> is_focused]
     \/ \E metadata \in Metadatas : \E where \in Nested1 :
          request = [fn |-> "filter_result", metadata |-> metadata, where |-> where]
     \/ \E n \in 0..MaxPieces :
          \E content \in [1..n -> {"dquote", "squote", " ", "x", "text", "label"}] :
            \E has_history \in BOOLEAN : \E lm_fails \in BOOLEAN :
              request = [fn |-> "condense_query", content |-> content,
                         has_history |-> has_history, lm_fails |-> lm_fails]
     \/ \E active_provider_id \in {"ollama", "openai"} :
          \E active_model \in {"none", "custom-model"} :
            request = [fn |-> "ProviderManager", calls |-> 0,
                       self |-> [active_provider_id |-> active_provider_id,
                                 active_model |-> active_model,
                                 credentials |-> [p \in {"ollama", "openai", "unknown"}
                                                    |-> "empty"]]]
  /\ response = [done |-> FALSE]

NextCalls ==
  \/ TrimMessages
  \/ CondenseQuery
  \/ FilterResult
  \/ GetRetrievalLimits
  \/ \E provider_id \in {"ollama", "openai", "unknown"} :
       \E model \in {"none", "custom-model"} : SetActiveProvider(provider_id, model)
  \/ \E provider_id \in {"ollama", "openai", "unknown"} :
       \E credentials \in {"empty", "key-1", "key-2"} :
         SetCredentials(provider_id, credentials)
  \/ \E provider_id \in {"none", "ollama", "openai", "unknown"} :
       \E model \in {"none", "other-model"} : ProviderChat(provider_id, model)

SpecCalls == InitSpecCalls /\ [][NextCalls]_vars

\* C24, as stated: the trimmed list keeps the system message, holds at most
\* max_messages messages and at most max_chars characters, and is the system
\* message followed by the most recent messages.
C24_TrimSatisfiesBothCaps ==
  ( request.fn = "trim_messages_for_context" /\ response.done )
  => LET result == response.messages IN
     /\ result # <<>> /\ result[1] = request.messages[1]
     /\ Len(result) <= request.max_messages
     /\ SumLen(result) <= request.max_chars
     /\ Tail(result) = SubSeq(request.messages,
                              Len(request.messages) - Len(result) + 2,
                              Len(request.messages))

\* C24, amended: the trimmed list is the system message followed by the
\* longest run of most recent messages that has at most max_messages messages
\* (the system message not counted) and, together with the system message, at
\* most max_chars characters; when the system message alone is longer than
\* max_chars the list is the system message alone.
C24_TrimKeepsLongestRecentRun ==
  ( request.fn = "trim_messages_for_context" /\ response.done )
  => LET result == response.messages
         messages == request.messages
         kept == Len(result) - 1
         fits(n) == /\ n <= request.max_messages
                    /\ messages[1].len
                       + SumLen(SubSeq(messages, Len(messages) - n + 1, Len(messages)))
                       <= request.max_chars
     IN
     /\ result # <<>> /\ result[1] = messages[1]
     /\ Tail(result) = SubSeq(messages, Len(messages) - kept + 1, Len(messages))
     /\ kept = 0 \/ fits(kept)
     /\ kept = Len(messages) - 1 \/ ~fits(kept + 1)

\* C24 witness: a history from which the oldest message was dropped and whose
\* trimmed list holds max_messages messages after the system message.
C24_Witness ==
  /\ request.fn = "trim_messages_for_context" /\ response.done
  /\ Len(response.messages) < Len(request.messages)
  /\ Len(response.messages) = request.max_messages + 1
  /\ request.max_messages >= 2

\* C25: a chat call that names no provider is handed to the active provider
\* with the credentials stored for it and, unless the call names a model, the
\* active model, or the provider's default model when no active model is set.
C25_ChatGoesToActiveProvider ==
  ( /\ request.fn = "ProviderManager" /\ response.done
    /\ response.op = "chat" /\ response.provider_id = "none" )
  => LET self == request.self IN
     /\ ~response.sent.raised
     /\ response.sent.provider = self.active_provider_id
     /\ response.sent.credentials = self.credentials[self.active_provider_id]
     /\ response.sent.model =
          IF response.model # "none" THEN response.model
          ELSE IF self.active_model # "none" THEN self.active_model
          ELSE default_model(self.active_provider_id)

\* C25 witness: after the provider was switched to openai without a model and
\* credentials were stored for both providers, a chat that names nothing goes
\* to openai with its key and its default model.
C25_Witness ==
  /\ request.fn = "ProviderManager" /\ response.done
  /\ response.op = "chat" /\ response.provider_id = "none" /\ response.model = "none"
  /\ request.calls = MaxManagerCalls
  /\ request.self.credentials["ollama"] = "key-1"
  /\ request.self.credentials["openai"] = "key-2"
  /\ response.sent = [raised |-> FALSE, provider |-> "openai", model |-> "gpt-4o-mini",
                      credentials |-> "key-2"]

C27_EvaluatorsAgree ==
  ( request.fn = "filter_result" /\ response.done )
  => response.sparse_kept = response.dense_kept

\* C30: condense_query returns the original query, or a rewritten query that
\* is between 5 and 300 characters long once quotes and a leading
\* "standalone question:" label are stripped; when the LM call fails it
\* returns the original query.
C30_CondensedQueryLength ==
  ( request.fn = "condense_query" /\ response.done )
  => /\ request.lm_fails => response.result = <<"original">>
     /\ \/ response.result = <<"original">>
        \/ LET q == response.result[2]
               chars == Len(q) + 19 * Cardinality({n \in 1..Len(q) : q[n] = "label"})
                        + 149 * Cardinality({n \in 1..Len(q) : q[n] = "text"})
           IN chars >= 5 /\ chars <= 300

\* C29: a job leaves its loop on the cancel flag only if it was running when
\* some cancel_indexing call was made; a call made while no job was running,
\* or before the job was started, does not cancel it.
C29_CancelOnlyRunningJob ==
  \A w \in Calls :
    worker[w].broke => \E c \in CancelCalls : w \in cancel_req[c].jobs

\* C28: every job that is started is eventually over with the busy flag and
\* the cancel flag of its chatbot both false, whether it ran to its end, was
\* cancelled or ended by an exception; start_indexing is then accepted and
\* the status reads idle.
C28_EveryJobEnds ==
  \A w \in Calls :
    (worker[w].pc = "begin")
    ~> ( /\ worker[w].pc = "done"
         /\ ~is_indexing[worker[w].self]
         /\ ~_cancel_indexing[worker[w].self] )

\* C28 witness: one job has ended by an exception and another one, started
\* after it, has ended by a cancel request; both flags are false.
C28_Witness ==
  \E v, w \in Calls :
    /\ worker[v].pc = "done" /\ worker[v].raised
    /\ worker[w].pc = "done" /\ worker[w].broke
    /\ worker[w].self = worker[v].self
    /\ ~is_indexing[worker[w].self]
    /\ ~_cancel_indexing[worker[w].self]

====
